---- MODULE Spec2Model ----
(***************************************************************************)
(* Model of the cognitive-memory MCP server: memory.js (validatePath,      *)
(* writeMemory, readMemory, listMemory) and the tool handlers of           *)
(* CognitiveDevelopmentServer (src/cognitive-server.js).                   *)
(*                                                                         *)
(* A JavaScript string is a sequence of one-character strings, so that     *)
(* split, startsWith, replace, length and concatenation are computed       *)
(* character by character as the code computes them.  The file system is   *)
(* a function from absolute paths to nodes (a directory, or a file with    *)
(* its text).                                                              *)
(***************************************************************************)
EXTENDS Integers, Sequences, FiniteSets, TLC

VARIABLES
    disk,       \* the file system: absolute path -> node
    codieDir,   \* process.env.CODIE_MEMORY_PATH (Undefined when unset)
    now,        \* the clock read by new Date()
    res,        \* the response (or the error) of the last tool call
    touched,    \* paths outside MEMORY_DIR handed to an fs primitive so far
    lastPut,    \* location -> text of the last successful writeEntity there
    noteLog,    \* the arguments and instants of the addSessionNote calls, in order
    nops,       \* number of tool calls made so far
    calls       \* the calls in flight: caller -> the call's position and locals

vars == <<disk, codieDir, now, res, touched, lastPut, noteLog, nops, calls>>

(***************************************************************************)
(* Bounds of the model.                                                    *)
(***************************************************************************)
MaxOps == 2
MaxNotes == 2
MaxClock == 2
MaxBatch == 2
MaxSel == 4

(***************************************************************************)
(* JavaScript string operations.                                           *)
(***************************************************************************)
NL == "\n"

startsWith(s, pre) ==
    Len(s) >= Len(pre) /\ SubSeq(s, 1, Len(pre)) = pre

endsWith(s, suf) ==
    Len(s) >= Len(suf) /\ SubSeq(s, Len(s) - Len(suf) + 1, Len(s)) = suf

\* String.prototype.indexOf(pat): 1-based position of the first occurrence, 0 if none.
indexOf(s, pat) ==
    LET hits == {i \in 1..(Len(s) - Len(pat) + 1) : SubSeq(s, i, i + Len(pat) - 1) = pat}
    IN  IF hits = {} THEN 0 ELSE CHOOSE i \in hits : \A j \in hits : i <= j

\* String.prototype.replace(pat, rep) with a string pattern: the first occurrence only.
replaceFirst(s, pat, rep) ==
    LET i == indexOf(s, pat)
    IN  IF i = 0 THEN s
        ELSE SubSeq(s, 1, i - 1) \o rep \o SubSeq(s, i + Len(pat), Len(s))

\* String.prototype.split(sep) for a one-character separator: "" splits to [""].
split(s, sep) ==
    LET cuts == {i \in 1..Len(s) : s[i] = sep}
        n == Cardinality(cuts)
        cut(k) == IF k = 0 THEN 0
                  ELSE IF k = n + 1 THEN Len(s) + 1
                  ELSE CHOOSE i \in cuts : Cardinality({j \in cuts : j < i}) = k - 1
    IN  [k \in 1..(n + 1) |-> SubSeq(s, cut(k - 1) + 1, cut(k) - 1)]

\* Array.prototype.join(sep), sep a string.
RECURSIVE join(_, _)
join(parts, sep) ==
    IF Len(parts) = 0 THEN <<>>
    ELSE IF Len(parts) = 1 THEN parts[1]
    ELSE parts[1] \o sep \o join(Tail(parts), sep)

\* Array.prototype.slice(start, end) on 0-based indices; negative indices count
\* from the end, and both are clamped to the array.
slice(arr, start, end) ==
    LET n  == Len(arr)
        s0 == IF start < 0 THEN (IF n + start < 0 THEN 0 ELSE n + start)
              ELSE (IF start > n THEN n ELSE start)
        e0 == IF end < 0 THEN (IF n + end < 0 THEN 0 ELSE n + end)
              ELSE (IF end > n THEN n ELSE end)
    IN  SubSeq(arr, s0 + 1, e0)

Lower == <<"a", "b", "c", "d", "e", "f", "g", "h", "i", "j", "k", "l", "m",
           "n", "o", "p", "q", "r", "s", "t", "u", "v", "w", "x", "y", "z">>
Upper == <<"A", "B", "C", "D", "E", "F", "G", "H", "I", "J", "K", "L", "M",
           "N", "O", "P", "Q", "R", "S", "T", "U", "V", "W", "X", "Y", "Z">>

\* String.prototype.toUpperCase on the ASCII letters.
toUpperCase(s) ==
    [i \in 1..Len(s) |->
        IF \E k \in 1..26 : Lower[k] = s[i]
        THEN Upper[CHOOSE k \in 1..26 : Lower[k] = s[i]]
        ELSE s[i]]

(***************************************************************************)
(* Node's path module on POSIX paths.                                      *)
(***************************************************************************)
SLASH == <<"/">>

\* The segments of a path after '.', '' and '..' are resolved ('..' at the
\* file-system root stays at the root).
RECURSIVE normSegs(_, _)
normSegs(segs, acc) ==
    IF Len(segs) = 0 THEN acc
    ELSE LET h == Head(segs)
         IN  IF h = <<>> \/ h = <<".">> THEN normSegs(Tail(segs), acc)
             ELSE IF h = <<".", ".">>
                  THEN normSegs(Tail(segs),
                                IF Len(acc) = 0 THEN acc ELSE SubSeq(acc, 1, Len(acc) - 1))
             ELSE normSegs(Tail(segs), Append(acc, h))

\* path.resolve of an absolute path: normalised, no trailing slash.
resolve(p) ==
    SLASH \o join(normSegs(split(p, "/"), <<>>), SLASH)

\* path.join(a, b) for an absolute a: the two joined by '/', then normalised.
pathJoin(a, b) ==
    resolve(a \o SLASH \o b)

\* path.dirname of a normalised absolute path.
dirname(p) ==
    LET segs == normSegs(split(p, "/"), <<>>)
    IN  IF Len(segs) <= 1 THEN SLASH
        ELSE SLASH \o join(SubSeq(segs, 1, Len(segs) - 1), SLASH)

basename(p) ==
    LET segs == normSegs(split(p, "/"), <<>>)
    IN  IF Len(segs) = 0 THEN <<>> ELSE segs[Len(segs)]

\* The proper ancestors of a path, nearest the root first ("/" first).
ancestors(p) ==
    LET segs == normSegs(split(p, "/"), <<>>)
    IN  [i \in 1..Len(segs) |->
            IF i = 1 THEN SLASH ELSE SLASH \o join(SubSeq(segs, 1, i - 1), SLASH)]

(***************************************************************************)
(* The storage capability: fs.mkdir (recursive), fs.writeFile,             *)
(* fs.readFile, fs.stat, fs.rename and fs.readdir with POSIX semantics.    *)
(* Each returns the new file system and either a value or an errno.        *)
(***************************************************************************)
\* A node is a directory or a regular file with its text; r tells whether the
\* process may read it (a file of mode 0200 may be written but not read).
DirNode == [t |-> "dir", data |-> <<>>, r |-> TRUE]
FileNode(text) == [t |-> "file", data |-> text, r |-> TRUE]
WriteOnlyNode(text) == [t |-> "file", data |-> text, r |-> FALSE]

isDir(d, p) == p \in DOMAIN d /\ d[p].t = "dir"
isFile(d, p) == p \in DOMAIN d /\ d[p].t = "file"

FsOk(d, v) == [ok |-> TRUE, err |-> "", disk |-> d, val |-> v]
FsErr(d, e) == [ok |-> FALSE, err |-> e, disk |-> d, val |-> <<>>]

\* Some proper ancestor of p is a regular file.
fileAbove(d, p) ==
    LET up == ancestors(p)
    IN  \E i \in 1..Len(up) : isFile(d, up[i])

\* fs.mkdir(dir, {recursive: true})
fsMkdir(d, dir) ==
    LET up == ancestors(dir)
        chain == {up[i] : i \in 1..Len(up)} \cup {dir}
    IN  IF fileAbove(d, dir) THEN FsErr(d, "ENOTDIR")
        ELSE IF isFile(d, dir) THEN FsErr(d, "EEXIST")
        ELSE FsOk([p \in DOMAIN d \cup chain |->
                      IF p \in DOMAIN d THEN d[p] ELSE DirNode], <<>>)

\* fs.writeFile(path, data): creates or truncates the file.
fsWriteFile(d, path, data) ==
    IF fileAbove(d, path) THEN FsErr(d, "ENOTDIR")
    ELSE IF ~isDir(d, dirname(path)) THEN FsErr(d, "ENOENT")
    ELSE IF isDir(d, path) THEN FsErr(d, "EISDIR")
    ELSE FsOk([p \in DOMAIN d \cup {path} |->
                  IF p # path THEN d[p]
                  ELSE IF isFile(d, path) THEN [d[path] EXCEPT !.data = data]
                  ELSE FileNode(data)], <<>>)

\* fs.readFile(path, 'utf-8')
fsReadFile(d, path) ==
    IF isFile(d, path) /\ d[path].r THEN FsOk(d, d[path].data)
    ELSE IF isFile(d, path) THEN FsErr(d, "EACCES")
    ELSE IF isDir(d, path) THEN FsErr(d, "EISDIR")
    ELSE IF fileAbove(d, path) THEN FsErr(d, "ENOTDIR")
    ELSE FsErr(d, "ENOENT")

\* A text too long to spell out holds BLOCK elements: one BLOCK stands for a run
\* of BLOCK_SIZE characters 'x' ('x'.repeat(n) of the rotation test), chosen so
\* that the journal header followed by one BLOCK has exactly ROTATION_THRESHOLD
\* characters.  A run is never part of a separator, a pattern or a letter case
\* conversion of the code, so the string operations treat it as one element.
BLOCK == "x.repeat"
BLOCK_SIZE == 1048576 - 16

\* The length of a text in characters, which is its size in bytes (ASCII).
byteLength(s) ==
    Len(s) + (BLOCK_SIZE - 1) * Cardinality({i \in 1..Len(s) : s[i] = BLOCK})

\* An fs.stat reporting the size rounded up to whole mebibytes.
fsStat_allocated(d, path) ==
    IF path \in DOMAIN d
    THEN FsOk(d, [size |-> ((byteLength(d[path].data) + 1048575) \div 1048576) * 1048576,
                  isDirectory |-> d[path].t = "dir"])
    ELSE IF fileAbove(d, path) THEN FsErr(d, "ENOTDIR")
    ELSE FsErr(d, "ENOENT")

\* fs.stat(path): size in bytes (the texts of the model are ASCII) and kind.
fsStat(d, path) ==
    IF path \in DOMAIN d
    THEN FsOk(d, [size |-> byteLength(d[path].data), isDirectory |-> d[path].t = "dir"])
    ELSE IF fileAbove(d, path) THEN FsErr(d, "ENOTDIR")
    ELSE FsErr(d, "ENOENT")

\* The paths at or below p.
subtree(d, p) ==
    {q \in DOMAIN d : q = p \/ startsWith(q, p \o SLASH)}

\* fs.rename(from, to) of a regular file: replaces a file at `to`.
fsRename(d, from, to) ==
    IF from \notin DOMAIN d
    THEN (IF fileAbove(d, from) THEN FsErr(d, "ENOTDIR") ELSE FsErr(d, "ENOENT"))
    ELSE IF fileAbove(d, to) THEN FsErr(d, "ENOTDIR")
    ELSE IF ~isDir(d, dirname(to)) THEN FsErr(d, "ENOENT")
    ELSE IF isDir(d, from) THEN FsErr(d, "EINVAL")
    ELSE IF isDir(d, to) THEN FsErr(d, "EISDIR")
    ELSE FsOk([p \in (DOMAIN d \ {from}) \cup {to} |->
                  IF p = to THEN d[from] ELSE d[p]], <<>>)

\* A set as a sequence without repetition.
RECURSIVE SeqOf(_)
SeqOf(S) ==
    IF S = {} THEN <<>>
    ELSE LET x == CHOOSE y \in S : TRUE
         IN  <<x>> \o SeqOf(S \ {x})

\* fs.readdir(dir): the names in dir, in the directory's (fixed) order.
fsReaddir(d, dir) ==
    IF isDir(d, dir)
    THEN FsOk(d, SeqOf({basename(p) : p \in {q \in DOMAIN d : q # SLASH /\ dirname(q) = dir}}))
    ELSE IF isFile(d, dir) \/ fileAbove(d, dir) THEN FsErr(d, "ENOTDIR")
    ELSE FsErr(d, "ENOENT")

(***************************************************************************)
(* memory.js                                                               *)
(***************************************************************************)
\* process.env.COGNITIVE_MEMORY_PATH, "/m"
MEMORY_DIR ==
    <<"/", "m">>

DOT_MD == <<".", "m", "d">>

\* validatePath with the prefix test of listMemory: no separator after the root.
validatePath_prefixOnly(userPath) ==
    LET check(fullPath, normalizedMemoryDir) ==
            IF ~startsWith(fullPath, normalizedMemoryDir)
            THEN [ok |-> FALSE, fullPath |-> fullPath]
            ELSE [ok |-> TRUE, fullPath |-> fullPath]
    IN  check(resolve(pathJoin(MEMORY_DIR, userPath \o DOT_MD)), resolve(MEMORY_DIR))

\* validatePath(userPath): the full path, or the 'escapes memory directory' error.
validatePath(userPath) ==
    LET check(fullPath, normalizedMemoryDir) ==
            IF ~startsWith(fullPath, normalizedMemoryDir \o SLASH)
               /\ fullPath # normalizedMemoryDir
            THEN [ok |-> FALSE, fullPath |-> fullPath]
            ELSE [ok |-> TRUE, fullPath |-> fullPath]
    IN  check(resolve(pathJoin(MEMORY_DIR, userPath \o DOT_MD)), resolve(MEMORY_DIR))

\* The outcome of a memory.js call: the file system after it, its value or error,
\* and the paths it handed to the storage capability.
MemOk(d, v, acc) == [ok |-> TRUE, err |-> "", disk |-> d, val |-> v, acc |-> acc]
MemErr(d, e, acc) == [ok |-> FALSE, err |-> e, disk |-> d, val |-> <<>>, acc |-> acc]

\* writeMemory appending to the file (fs.appendFile for fs.writeFile).
writeMemory_append(d, path, content) ==
    LET written(acc, w) ==
            IF ~w.ok THEN MemErr(w.disk, w.err, acc) ELSE MemOk(w.disk, <<>>, acc)
        made(fullPath, dir, m) ==
            IF ~m.ok THEN MemErr(d, m.err, {dir})
            ELSE written({dir, fullPath},
                         fsWriteFile(m.disk, fullPath,
                             (IF isFile(m.disk, fullPath) THEN m.disk[fullPath].data
                              ELSE <<>>) \o content))
        mkdir(fullPath, dir) == made(fullPath, dir, fsMkdir(d, dir))
        valid(v) ==
            IF ~v.ok THEN MemErr(d, "PathEscape", {})
            ELSE mkdir(v.fullPath, dirname(v.fullPath))
    IN  valid(validatePath(path))

\* writeMemory(path, content)
writeMemory(d, path, content) ==
    LET written(acc, w) ==
            IF ~w.ok THEN MemErr(w.disk, w.err, acc) ELSE MemOk(w.disk, <<>>, acc)
        made(fullPath, dir, m) ==
            IF ~m.ok THEN MemErr(d, m.err, {dir})
            ELSE written({dir, fullPath}, fsWriteFile(m.disk, fullPath, content))
        mkdir(fullPath, dir) == made(fullPath, dir, fsMkdir(d, dir))
        valid(v) ==
            IF ~v.ok THEN MemErr(d, "PathEscape", {})
            ELSE mkdir(v.fullPath, dirname(v.fullPath))
    IN  valid(validatePath(path))

\* A readMemory that returns the first line of the file only.
readMemory_firstLine(d, path) ==
    LET read(fullPath, r) ==
            IF ~r.ok THEN MemErr(d, r.err, {fullPath})
            ELSE MemOk(d, split(r.val, "\n")[1], {fullPath})
        valid(v) ==
            IF ~v.ok THEN MemErr(d, "PathEscape", {})
            ELSE read(v.fullPath, fsReadFile(d, v.fullPath))
    IN  valid(validatePath(path))

\* readMemory(path)
readMemory(d, path) ==
    LET read(fullPath, r) ==
            IF ~r.ok THEN MemErr(d, r.err, {fullPath}) ELSE MemOk(d, r.val, {fullPath})
        valid(v) ==
            IF ~v.ok THEN MemErr(d, "PathEscape", {})
            ELSE read(v.fullPath, fsReadFile(d, v.fullPath))
    IN  valid(validatePath(path))

\* listMemory(dir, prefix): the loop over readdir's items is listItems.
RECURSIVE listMemory(_, _, _)
RECURSIVE listItems(_, _, _, _)
listItems(d, dir, prefix, items) ==
    LET item == Head(items)
        more(seen) == listItems(d, dir, prefix, Tail(items))
        file(acc, rest) ==
            IF ~rest.ok THEN MemErr(d, rest.err, acc \cup rest.acc)
            ELSE IF endsWith(item, DOT_MD)
            THEN MemOk(d, <<prefix \o replaceFirst(item, DOT_MD, <<>>)>> \o rest.val,
                       acc \cup rest.acc)
            ELSE MemOk(d, rest.val, acc \cup rest.acc)
        both(acc, sub, rest) ==
            IF ~rest.ok THEN MemErr(d, rest.err, acc \cup sub.acc \cup rest.acc)
            ELSE MemOk(d, sub.val \o rest.val, acc \cup sub.acc \cup rest.acc)
        directory(acc, sub) ==
            IF ~sub.ok THEN MemErr(d, sub.err, acc \cup sub.acc)
            ELSE both(acc, sub, more(acc))
        stat(itemPath, st) ==
            IF ~st.ok THEN MemErr(d, st.err, {itemPath})
            ELSE IF st.val.isDirectory
            THEN directory({itemPath}, listMemory(d, itemPath, prefix \o item \o SLASH))
            ELSE file({itemPath}, more({itemPath}))
        each(itemPath) == stat(itemPath, fsStat(d, itemPath))
    IN  IF Len(items) = 0 THEN MemOk(d, <<>>, {})
        ELSE each(pathJoin(dir, item))

listMemory(d, dir, prefix) ==
    LET listed(r) ==
            IF ~r.ok THEN MemErr(d, r.err, {dir} \cup r.acc)
            ELSE MemOk(d, r.val, {dir} \cup r.acc)
        items(rd) == listed(listItems(d, dir, prefix, IF rd.ok THEN rd.val ELSE <<>>))
    IN  IF ~startsWith(resolve(dir), resolve(MEMORY_DIR))
        THEN MemErr(d, "PathEscape", {})
        ELSE items(fsReaddir(d, dir))

(***************************************************************************)
(* The clock: new Date().toISOString().  Instant t is second t % 2 of day  *)
(* 3 + t \div 2 of November 2026, so successive instants can share a date. *)
(***************************************************************************)
Digits == <<"0", "1", "2", "3", "4", "5", "6", "7", "8", "9">>

twoDigits(n) == <<Digits[((n \div 10) % 10) + 1], Digits[(n % 10) + 1]>>

\* Number-to-string conversion of a template literal, for a natural number.
RECURSIVE natToString(_)
natToString(n) ==
    IF n < 10 THEN <<Digits[n + 1]>>
    ELSE natToString(n \div 10) \o <<Digits[(n % 10) + 1]>>

TS_PREFIX ==
    <<"2", "0", "2", "6", "-", "1", "1", "-">>
TS_MID ==
    <<"T", "0", "0", ":", "0", "0", ":", "0">>
TS_SUFFIX ==
    <<".", "0", "0", "0", "Z">>

toISOString(t) ==
    TS_PREFIX \o twoDigits(3 + (t \div 2)) \o TS_MID \o <<Digits[(t % 2) + 1]>> \o TS_SUFFIX

\* timestamp.split('T')[0]
dateStampOf(timestamp) ==
    split(timestamp, "T")[1]

(***************************************************************************)
(* Optional arguments: <<>> is undefined (or null), <<v>> is the value v.  *)
(***************************************************************************)
Undefined == <<>>
Some(v) == <<v>>
isDefined(o) == Len(o) = 1
\* o > 0 in JavaScript: false for undefined.
gtZero(o) == isDefined(o) /\ o[1] > 0

\* The outcome of a tool call: the file system after it, the response or the
\* error thrown, and the paths handed to the storage capability.
Reply(d, out, acc) == [disk |-> d, ok |-> TRUE, err |-> "", out |-> out, acc |-> acc]
Throw(d, e, acc) == [disk |-> d, ok |-> FALSE, err |-> e, out |-> <<>>, acc |-> acc]

(***************************************************************************)
(* CognitiveDevelopmentServer: the tool handlers.                          *)
(***************************************************************************)
CURRENT_SESSION ==
    <<"c", "u", "r", "r", "e", "n", "t", "_", "s", "e", "s", "s", "i", "o", "n">>
\* '# Current Session\n'
SESSION_DEFAULT ==
    <<"#", " ", "C", "u", "r", "r", "e", "n", "t", " ", "S", "e", "s", "s", "i", "o",
      "n", "\n">>
\* ' note added to session'
NOTE_ADDED ==
    <<" ", "n", "o", "t", "e", " ", "a", "d", "d", "e", "d", " ", "t", "o", " ", "s",
      "e", "s", "s", "i", "o", "n">>
MEDIUM ==
    <<"m", "e", "d", "i", "u", "m">>

\* formattedNote with the note type as given.
formattedNote_typeAsGiven(note_type, importance, timestamp, content) ==
    <<"\n", "#", "#", "#", " ">> \o note_type \o <<" ", "-", " ">>
        \o toUpperCase(importance) \o <<" ", "(">> \o timestamp \o <<")", "\n">>
        \o content \o <<"\n">>

\* `\n### ${note_type.toUpperCase()} - ${importance.toUpperCase()} (${timestamp})\n${content}\n`
formattedNote(note_type, importance, timestamp, content) ==
    <<"\n", "#", "#", "#", " ">> \o toUpperCase(note_type) \o <<" ", "-", " ">>
        \o toUpperCase(importance) \o <<" ", "(">> \o timestamp \o <<")", "\n">>
        \o content \o <<"\n">>

\* addSessionNote({ note_type, content, importance = 'medium' })
addSessionNote(d, t, args) ==
    LET importance == IF isDefined(args.importance) THEN args.importance[1] ELSE MEDIUM
        timestamp == toISOString(t)
        written(acc, w) ==
            IF ~w.ok THEN Throw(w.disk, w.err, acc \cup w.acc)
            ELSE Reply(w.disk,
                       [success |-> TRUE, message |-> args.note_type \o NOTE_ADDED],
                       acc \cup w.acc)
        \* readMemory('current_session').catch(() => '# Current Session\n')
        append(r) ==
            written(r.acc,
                    writeMemory(d, CURRENT_SESSION,
                        (IF r.ok THEN r.val ELSE SESSION_DEFAULT)
                            \o formattedNote(args.note_type, importance, timestamp,
                                             args.content)))
    IN  append(readMemory(d, CURRENT_SESSION))

\* makeResponse counting the returned lines twice.
makeResponse_returnedAsTotal(entity_path, totalLines, lines) ==
    [path |-> entity_path,
     content |-> join(lines, <<"\n">>),
     total_lines |-> Len(lines),
     returned_lines |-> Len(lines)]

\* makeResponse(lines) of readEntity
makeResponse(entity_path, totalLines, lines) ==
    [path |-> entity_path,
     content |-> join(lines, <<"\n">>),
     total_lines |-> totalLines,
     returned_lines |-> Len(lines)]

\* readEntity with the .catch(() => '') of the other handlers on its read.
readEntity_blankWhenMissing(d, args) ==
    LET select(acc, allLines, totalLines) ==
            IF gtZero(args.tail)
            THEN Reply(d, makeResponse(args.entity_path, totalLines,
                                       slice(allLines, -args.tail[1], totalLines)), acc)
            ELSE IF gtZero(args.head)
            THEN Reply(d, makeResponse(args.entity_path, totalLines,
                                       slice(allLines, 0, args.head[1])), acc)
            ELSE Reply(d, makeResponse(args.entity_path, totalLines, allLines), acc)
        lines(acc, allLines) == select(acc, allLines, Len(allLines))
        read(r) ==
            lines(r.acc, split(r.val, "\n"))
    IN  read(readMemory(d, args.entity_path))

\* readEntity({ entity_path, tail, head }): any other argument is ignored.
readEntity(d, args) ==
    LET select(acc, allLines, totalLines) ==
            IF gtZero(args.tail)
            THEN Reply(d, makeResponse(args.entity_path, totalLines,
                                       slice(allLines, -args.tail[1], totalLines)), acc)
            ELSE IF gtZero(args.head)
            THEN Reply(d, makeResponse(args.entity_path, totalLines,
                                       slice(allLines, 0, args.head[1])), acc)
            ELSE Reply(d, makeResponse(args.entity_path, totalLines, allLines), acc)
        lines(acc, allLines) == select(acc, allLines, Len(allLines))
        read(r) ==
            IF ~r.ok THEN Throw(d, r.err, r.acc)
            ELSE lines(r.acc, split(r.val, "\n"))
    IN  read(readMemory(d, args.entity_path))

\* A writeEntity that also leaves the path it wrote in the session document.
writeEntity_indexed(d, args) ==
    LET indexed(w, x) ==
            IF ~x.ok THEN Throw(x.disk, x.err, w.acc \cup x.acc)
            ELSE Reply(x.disk, [success |-> TRUE, path |-> args.entity_path],
                       w.acc \cup x.acc)
        written(w) ==
            IF ~w.ok THEN Throw(w.disk, w.err, w.acc)
            ELSE indexed(w, writeMemory(w.disk, CURRENT_SESSION, args.entity_path))
    IN  written(writeMemory(d, args.entity_path, args.content))

\* writeEntity({ entity_path, content })
writeEntity(d, args) ==
    LET written(w) ==
            IF ~w.ok THEN Throw(w.disk, w.err, w.acc)
            ELSE Reply(w.disk, [success |-> TRUE, path |-> args.entity_path], w.acc)
    IN  written(writeMemory(d, args.entity_path, args.content))

\* Array.prototype.filter with path => path.startsWith(prefix)
RECURSIVE filterPrefix(_, _)
filterPrefix(paths, prefix) ==
    IF Len(paths) = 0 THEN <<>>
    ELSE IF startsWith(Head(paths), prefix)
    THEN <<Head(paths)>> \o filterPrefix(Tail(paths), prefix)
    ELSE filterPrefix(Tail(paths), prefix)

\* listEntities({ filter_prefix = '' }): the empty prefix is falsy.
listEntities(d, args) ==
    LET filter_prefix == IF isDefined(args.filter_prefix) THEN args.filter_prefix[1] ELSE <<>>
        listed(l) ==
            IF ~l.ok THEN Throw(d, l.err, l.acc)
            ELSE IF filter_prefix # <<>>
            THEN Reply(d, filterPrefix(l.val, filter_prefix), l.acc)
            ELSE Reply(d, l.val, l.acc)
    IN  listed(listMemory(d, MEMORY_DIR, <<>>))

(***************************************************************************)
(* deepLearn                                                               *)
(***************************************************************************)
\* 'context_anchors'
CONTEXT_ANCHORS ==
    <<"c", "o", "n", "t", "e", "x", "t", "_", "a", "n", "c", "h", "o", "r", "s">>
\* '# Context Anchors'
ANCHORS_HEADER ==
    <<"#", " ", "C", "o", "n", "t", "e", "x", "t", " ", "A", "n", "c", "h", "o", "r",
      "s">>
\* '\n## Deep Learn Session - '
DEEP_LEARN_OPEN ==
    <<"\n", "#", "#", " ", "D", "e", "e", "p", " ", "L", "e", "a", "r", "n", " ", "S",
      "e", "s", "s", "i", "o", "n", " ", "-", " ">>
\* '\n\n---\n\n'
ENTRY_CLOSE ==
    <<"\n", "\n", "-", "-", "-", "\n", "\n">>
\* 'session_archives/'
SESSION_ARCHIVES ==
    <<"s", "e", "s", "s", "i", "o", "n", "_", "a", "r", "c", "h", "i", "v", "e", "s",
      "/">>
\* '# Current Session\n\n*Session reset on '
RESET_OPEN ==
    <<"#", " ", "C", "u", "r", "r", "e", "n", "t", " ", "S", "e", "s", "s", "i", "o",
      "n", "\n", "\n", "*", "S", "e", "s", "s", "i", "o", "n", " ", "r", "e", "s", "e",
      "t", " ", "o", "n", " ">>
\* ' after Deep Learn integration*\n*Previous session content integrated into structured entities*\n'
RESET_BODY ==
    <<" ", "a", "f", "t", "e", "r", " ", "D", "e", "e", "p", " ", "L", "e", "a", "r",
      "n", " ", "i", "n", "t", "e", "g", "r", "a", "t", "i", "o", "n", "*", "\n", "*",
      "P", "r", "e", "v", "i", "o", "u", "s", " ", "s", "e", "s", "s", "i", "o", "n",
      " ", "c", "o", "n", "t", "e", "n", "t", " ", "i", "n", "t", "e", "g", "r", "a",
      "t", "e", "d", " ", "i", "n", "t", "o", " ", "s", "t", "r", "u", "c", "t", "u",
      "r", "e", "d", " ", "e", "n", "t", "i", "t", "i", "e", "s", "*", "\n">>
\* '*Session archived to: '
RESET_ARCHIVED ==
    <<"*", "S", "e", "s", "s", "i", "o", "n", " ", "a", "r", "c", "h", "i", "v", "e",
      "d", " ", "t", "o", ":", " ">>
\* '.md*'
MD_STAR ==
    <<".", "m", "d", "*">>
\* 'Deep Learn complete: '
DEEP_LEARN_COMPLETE ==
    <<"D", "e", "e", "p", " ", "L", "e", "a", "r", "n", " ", "c", "o", "m", "p", "l",
      "e", "t", "e", ":", " ">>
\* ' entities created/updated'
ENTITIES_CREATED ==
    <<" ", "e", "n", "t", "i", "t", "i", "e", "s", " ", "c", "r", "e", "a", "t", "e",
      "d", "/", "u", "p", "d", "a", "t", "e", "d">>
\* ', session archived to '
SESSION_ARCHIVED_TO ==
    <<",", " ", "s", "e", "s", "s", "i", "o", "n", " ", "a", "r", "c", "h", "i", "v",
      "e", "d", " ", "t", "o", " ">>

\* currentSessionContent.length > 200
ARCHIVE_MIN_LENGTH == 200

\* String.prototype.length
strLength(s) == byteLength(s)

\* The loop returning after its first entity.
RECURSIVE writeEntities_firstOnly(_, _)
writeEntities_firstOnly(d, entities) ==
    LET next(w) ==
            IF ~w.ok THEN MemErr(w.disk, w.err, w.acc)
            ELSE MemOk(w.disk, <<>>, w.acc)
    IN  IF Len(entities) = 0 THEN MemOk(d, <<>>, {})
        ELSE next(writeMemory(d, Head(entities).path, Head(entities).content))

\* Step 1: the loop writing every entity in order; the first failure is thrown.
RECURSIVE writeEntities(_, _)
writeEntities(d, entities) ==
    LET both(w, rest) ==
            IF ~rest.ok THEN MemErr(rest.disk, rest.err, w.acc \cup rest.acc)
            ELSE MemOk(rest.disk, <<>>, w.acc \cup rest.acc)
        next(w) ==
            IF ~w.ok THEN MemErr(w.disk, w.err, w.acc)
            ELSE both(w, writeEntities(w.disk, Tail(entities)))
    IN  IF Len(entities) = 0 THEN MemOk(d, <<>>, {})
        ELSE next(writeMemory(d, Head(entities).path, Head(entities).content))

\* createdEntities.map(e => `- **${e.path}**: ${e.anchor_summary}`)
anchorLines(entities) ==
    [i \in 1..Len(entities) |->
        <<"-", " ", "*", "*">> \o entities[i].path \o <<"*", "*", ":", " ">>
            \o entities[i].anchor_summary]

\* `\n## Deep Learn Session - ${timestamp}\n${lines.join('\n')}\n\n---\n\n`
contextAnchorsEntry(timestamp, entities) ==
    DEEP_LEARN_OPEN \o timestamp \o <<"\n">> \o join(anchorLines(entities), <<"\n">>)
        \o ENTRY_CLOSE

\* existingAnchors.match(/^(# Context Anchors.*?\n\n)/s): the header through the
\* first blank line after the title, or no match.
headerMatch(existingAnchors) ==
    LET after == SubSeq(existingAnchors, Len(ANCHORS_HEADER) + 1, Len(existingAnchors))
        i == indexOf(after, <<"\n", "\n">>)
    IN  IF startsWith(existingAnchors, ANCHORS_HEADER) /\ i > 0
        THEN Some(SubSeq(existingAnchors, 1, Len(ANCHORS_HEADER) + i + 1))
        ELSE Undefined

\* Step 2 adding the entry at the end of context_anchors.
updateAnchors_atEnd(d, entry) ==
    LET caught(acc, c) ==
            IF ~c.ok THEN MemErr(c.disk, c.err, acc \cup c.acc)
            ELSE MemOk(c.disk, <<>>, acc \cup c.acc)
        catch(d1, acc) ==
            caught(acc, writeMemory(d1, CONTEXT_ANCHORS, ANCHORS_HEADER \o <<"\n", "\n">> \o entry))
        written(r, w) ==
            IF w.ok THEN MemOk(w.disk, <<>>, r.acc \cup w.acc)
            ELSE catch(w.disk, r.acc \cup w.acc)
        try(r) ==
            IF r.ok THEN written(r, writeMemory(d, CONTEXT_ANCHORS, r.val \o entry))
            ELSE catch(d, r.acc)
    IN  try(readMemory(d, CONTEXT_ANCHORS))

\* Step 2: insert the entry after the header of context_anchors; the catch block
\* (an absent ledger, or a failed write in the try block) writes a fresh ledger.
updateAnchors(d, entry) ==
    LET caught(acc, c) ==
            IF ~c.ok THEN MemErr(c.disk, c.err, acc \cup c.acc)
            ELSE MemOk(c.disk, <<>>, acc \cup c.acc)
        catch(d1, acc) ==
            caught(acc, writeMemory(d1, CONTEXT_ANCHORS, ANCHORS_HEADER \o <<"\n", "\n">> \o entry))
        written(r, w) ==
            IF w.ok THEN MemOk(w.disk, <<>>, r.acc \cup w.acc)
            ELSE catch(w.disk, r.acc \cup w.acc)
        insert(r, h) ==
            IF isDefined(h)
            THEN written(r, writeMemory(d, CONTEXT_ANCHORS,
                     h[1] \o entry \o SubSeq(r.val, Len(h[1]) + 1, Len(r.val))))
            ELSE written(r, writeMemory(d, CONTEXT_ANCHORS, entry \o r.val))
        try(r) ==
            IF r.ok THEN insert(r, headerMatch(r.val)) ELSE catch(d, r.acc)
    IN  try(readMemory(d, CONTEXT_ANCHORS))

\* A step 3 that archives whatever it could read, an absent session as ''.
archiveSession_always(d, dateStamp) ==
    LET archivePath == SESSION_ARCHIVES \o dateStamp
        archived(r, w) ==
            [disk |-> w.disk, sessionArchived |-> w.ok, archivePath |-> Some(archivePath),
             acc |-> r.acc \cup w.acc]
        try(r) == archived(r, writeMemory(d, archivePath, IF r.ok THEN r.val ELSE <<>>))
    IN  try(readMemory(d, CURRENT_SESSION))

\* Step 3: archive current_session when it is longer than ARCHIVE_MIN_LENGTH.
archiveSession(d, dateStamp) ==
    LET archivePath == SESSION_ARCHIVES \o dateStamp
        archived(r, w) ==
            [disk |-> w.disk, sessionArchived |-> w.ok, archivePath |-> Some(archivePath),
             acc |-> r.acc \cup w.acc]
        try(r) ==
            IF r.ok /\ r.val # <<>> /\ strLength(r.val) > ARCHIVE_MIN_LENGTH
            THEN archived(r, writeMemory(d, archivePath, r.val))
            ELSE [disk |-> d, sessionArchived |-> FALSE, archivePath |-> Undefined,
                  acc |-> r.acc]
    IN  try(readMemory(d, CURRENT_SESSION))

\* Step 4: the reset template.
sessionResetContent_neverNamed(dateStamp, sessionArchived, archivePath) ==
    RESET_OPEN \o dateStamp \o RESET_BODY \o <<"\n", "\n">>

sessionResetContent(dateStamp, sessionArchived, archivePath) ==
    RESET_OPEN \o dateStamp \o RESET_BODY
        \o (IF sessionArchived THEN RESET_ARCHIVED \o archivePath[1] \o MD_STAR ELSE <<>>)
        \o <<"\n", "\n">>

\* A deepLearn that inserts the ledger entry before giving up on a failed batch.
deepLearn_anchorsBeforeAbort(d, t, args) ==
    LET timestamp == toISOString(t)
        aborted(s1, s2) == Throw(s2.disk, s1.err, s1.acc \cup s2.acc)
        step2(s1) ==
            IF ~s1.ok
            THEN aborted(s1, updateAnchors(s1.disk,
                                 contextAnchorsEntry(timestamp, args.entities)))
            ELSE Reply(s1.disk, [success |-> TRUE], s1.acc)
    IN  step2(writeEntities(d, args.entities))

\* deepLearn({ entities })
deepLearn(d, t, args) ==
    LET timestamp == toISOString(t)
        dateStamp == dateStampOf(timestamp)
        step5(s3, s4, acc) ==
            IF ~s4.ok THEN Throw(s4.disk, s4.err, acc \cup s4.acc)
            ELSE Reply(s4.disk,
                       [success |-> TRUE,
                        message |-> DEEP_LEARN_COMPLETE \o natToString(Len(args.entities))
                            \o ENTITIES_CREATED
                            \o (IF s3.sessionArchived
                                THEN SESSION_ARCHIVED_TO \o s3.archivePath[1] ELSE <<>>),
                        entities_created |->
                            [i \in 1..Len(args.entities) |-> args.entities[i].path],
                        session_reset |-> TRUE,
                        session_archived |-> s3.sessionArchived,
                        archive_path |-> s3.archivePath,
                        context_anchors_updated |-> TRUE],
                       acc \cup s4.acc)
        step4(s3, acc) ==
            step5(s3,
                  writeMemory(s3.disk, CURRENT_SESSION,
                      sessionResetContent(dateStamp, s3.sessionArchived, s3.archivePath)),
                  acc \cup s3.acc)
        step3(s2, acc) ==
            IF ~s2.ok THEN Throw(s2.disk, s2.err, acc \cup s2.acc)
            ELSE step4(archiveSession(s2.disk, dateStamp), acc \cup s2.acc)
        step2(s1) ==
            IF ~s1.ok THEN Throw(s1.disk, s1.err, s1.acc)
            ELSE step3(updateAnchors(s1.disk, contextAnchorsEntry(timestamp, args.entities)),
                       s1.acc)
    IN  step2(writeEntities(d, args.entities))

(***************************************************************************)
(* synthesisReflection                                                     *)
(***************************************************************************)
\* 'dream_journal'
DREAM_JOURNAL ==
    <<"d", "r", "e", "a", "m", "_", "j", "o", "u", "r", "n", "a", "l">>
\* 'dream_journal.md'
DREAM_JOURNAL_MD ==
    <<"d", "r", "e", "a", "m", "_", "j", "o", "u", "r", "n", "a", "l", ".", "m", "d">>
\* 'dream_journal_'
DREAM_JOURNAL_DATED ==
    <<"d", "r", "e", "a", "m", "_", "j", "o", "u", "r", "n", "a", "l", "_">>
\* '**Entity Path**: '
ENTITY_PATH_MARK ==
    <<"*", "*", "E", "n", "t", "i", "t", "y", " ", "P", "a", "t", "h", "*", "*", ":",
      " ">>
\* '\n## Context from Anchors\nActive entities: '
ANCHORS_INFO_OPEN ==
    <<"\n", "#", "#", " ", "C", "o", "n", "t", "e", "x", "t", " ", "f", "r", "o", "m",
      " ", "A", "n", "c", "h", "o", "r", "s", "\n", "A", "c", "t", "i", "v", "e", " ",
      "e", "n", "t", "i", "t", "i", "e", "s", ":", " ">>
\* ' referenced\n'
ANCHORS_INFO_CLOSE ==
    <<" ", "r", "e", "f", "e", "r", "e", "n", "c", "e", "d", "\n">>
\* ' Reflection - '
REFLECTION_DASH ==
    <<" ", "R", "e", "f", "l", "e", "c", "t", "i", "o", "n", " ", "-", " ">>
\* '\n\n## Key Insights\n'
KEY_INSIGHTS ==
    <<"\n", "\n", "#", "#", " ", "K", "e", "y", " ", "I", "n", "s", "i", "g", "h", "t",
      "s", "\n">>
\* '## Cognitive Growth Observed\n'
GROWTH_OBSERVED ==
    <<"#", "#", " ", "C", "o", "g", "n", "i", "t", "i", "v", "e", " ", "G", "r", "o",
      "w", "t", "h", " ", "O", "b", "s", "e", "r", "v", "e", "d", "\n">>
\* '## Future Development Focus\n'
FUTURE_FOCUS ==
    <<"#", "#", " ", "F", "u", "t", "u", "r", "e", " ", "D", "e", "v", "e", "l", "o",
      "p", "m", "e", "n", "t", " ", "F", "o", "c", "u", "s", "\n">>
\* '\n\n---\n*Generated via Dream Tool for meta-cognitive development*\n\n'
GENERATED_VIA ==
    <<"\n", "\n", "-", "-", "-", "\n", "*", "G", "e", "n", "e", "r", "a", "t", "e",
      "d", " ", "v", "i", "a", " ", "D", "r", "e", "a", "m", " ", "T", "o", "o", "l",
      " ", "f", "o", "r", " ", "m", "e", "t", "a", "-", "c", "o", "g", "n", "i", "t",
      "i", "v", "e", " ", "d", "e", "v", "e", "l", "o", "p", "m", "e", "n", "t", "*",
      "\n", "\n">>
\* '# Dream Journal\n'
JOURNAL_DEFAULT ==
    <<"#", " ", "D", "r", "e", "a", "m", " ", "J", "o", "u", "r", "n", "a", "l", "\n">>
\* '# Dream Journal\n\n*Previous journal archived to: dream_journal_'
JOURNAL_ARCHIVED_TO ==
    <<"#", " ", "D", "r", "e", "a", "m", " ", "J", "o", "u", "r", "n", "a", "l", "\n",
      "\n", "*", "P", "r", "e", "v", "i", "o", "u", "s", " ", "j", "o", "u", "r", "n",
      "a", "l", " ", "a", "r", "c", "h", "i", "v", "e", "d", " ", "t", "o", ":", " ",
      "d", "r", "e", "a", "m", "_", "j", "o", "u", "r", "n", "a", "l", "_">>
\* '.md*\n\n'
MD_STAR_BLANK ==
    <<".", "m", "d", "*", "\n", "\n">>
\* ' reflection saved; journal rotated (was '
SAVED_ROTATED ==
    <<" ", "r", "e", "f", "l", "e", "c", "t", "i", "o", "n", " ", "s", "a", "v", "e",
      "d", ";", " ", "j", "o", "u", "r", "n", "a", "l", " ", "r", "o", "t", "a", "t",
      "e", "d", " ", "(", "w", "a", "s", " ">>
\* 'KB)'
KB_CLOSE ==
    <<"K", "B", ")">>
\* ' reflection saved to dream journal'
SAVED_TO_JOURNAL ==
    <<" ", "r", "e", "f", "l", "e", "c", "t", "i", "o", "n", " ", "s", "a", "v", "e",
      "d", " ", "t", "o", " ", "d", "r", "e", "a", "m", " ", "j", "o", "u", "r", "n",
      "a", "l">>

ROTATION_THRESHOLD == 1048576

\* contextAnchors.match(/\*\*Entity Path\*\*: (.+)/g).length: '.' stops at a line
\* feed, so a line matches once when the mark is followed by a character.
entityMatches(contextAnchors) ==
    LET lines == split(contextAnchors, "\n")
    IN  Cardinality({i \in 1..Len(lines) :
            /\ indexOf(lines[i], ENTITY_PATH_MARK) > 0
            /\ indexOf(lines[i], ENTITY_PATH_MARK) + Len(ENTITY_PATH_MARK) - 1 < Len(lines[i])})

\* reflection_type.charAt(0).toUpperCase() + reflection_type.slice(1)
capitalize(s) ==
    toUpperCase(SubSeq(s, 1, 1)) \o SubSeq(s, 2, Len(s))

\* key_insights.map(insight => `- ${insight}`).join('\n')
insightLines(key_insights) ==
    join([i \in 1..Len(key_insights) |-> <<"-", " ">> \o key_insights[i]], <<"\n">>)

\* An optional string argument is truthy when defined and not empty.
truthy(o) == isDefined(o) /\ o[1] # <<>>

\* The reflectionContent template.
reflectionContent(args, timestamp, contextAnchorsInfo) ==
    <<"\n", "#", " ">> \o capitalize(args.reflection_type) \o REFLECTION_DASH \o timestamp
        \o KEY_INSIGHTS \o insightLines(args.key_insights) \o <<"\n">>
        \o contextAnchorsInfo \o <<"\n">>
        \o (IF truthy(args.cognitive_growth)
            THEN GROWTH_OBSERVED \o args.cognitive_growth[1] \o <<"\n">> ELSE <<>>)
        \o <<"\n", "\n">>
        \o (IF truthy(args.future_focus)
            THEN FUTURE_FOCUS \o args.future_focus[1] \o <<"\n">> ELSE <<>>)
        \o GENERATED_VIA

\* Math.round(size / 1024)
roundKB(size) == (2 * size + 1024) \div 2048

\* synthesisReflection({ reflection_type, key_insights, cognitive_growth, future_focus });
\* env is process.env.CODIE_MEMORY_PATH.
synthesisReflection(d, env, t, args) ==
    LET timestamp == toISOString(t)
        dateStamp == dateStampOf(timestamp)
        anchorsInfo(n) ==
            IF n > 0 THEN ANCHORS_INFO_OPEN \o natToString(n) \o ANCHORS_INFO_CLOSE ELSE <<>>
        \* the plain append, on the file system d2 that control reaches it with
        appended(acc, w) ==
            IF ~w.ok THEN Throw(w.disk, w.err, acc \cup w.acc)
            ELSE Reply(w.disk,
                       [success |-> TRUE,
                        message |-> args.reflection_type \o SAVED_TO_JOURNAL],
                       acc \cup w.acc)
        existing(content, d2, acc, r) ==
            appended(acc \cup r.acc,
                     writeMemory(d2, DREAM_JOURNAL,
                                 (IF r.ok THEN r.val ELSE JOURNAL_DEFAULT) \o content))
        append(content, d2, acc) ==
            existing(content, d2, acc, readMemory(d2, DREAM_JOURNAL))
        \* the rotation, inside the try block
        created(content, size, acc, nw) ==
            IF ~nw.ok THEN append(content, nw.disk, acc \cup nw.acc)
            ELSE Reply(nw.disk,
                       [success |-> TRUE,
                        message |-> args.reflection_type \o SAVED_ROTATED
                            \o natToString(roundKB(size)) \o KB_CLOSE,
                        rotated |-> TRUE,
                        archived_to |-> DREAM_JOURNAL_DATED \o dateStamp \o DOT_MD],
                       acc \cup nw.acc)
        renamed(content, size, acc, rn) ==
            IF ~rn.ok THEN append(content, d, acc)
            ELSE created(content, size, acc,
                         writeMemory(rn.disk, DREAM_JOURNAL,
                             JOURNAL_ARCHIVED_TO \o dateStamp \o MD_STAR_BLANK \o content))
        rotate(content, acc, journalPath, rotatedPath, st) ==
            IF st.ok /\ st.val.size >= ROTATION_THRESHOLD
            THEN renamed(content, st.val.size, acc \cup {journalPath, rotatedPath},
                         fsRename(d, journalPath, rotatedPath))
            ELSE append(content, d, acc \cup {journalPath})
        \* join(undefined, ...) throws a TypeError before the try block
        located(content, acc, journalPath) ==
            rotate(content, acc, journalPath,
                   resolve(pathJoin(env[1], DREAM_JOURNAL_DATED \o dateStamp \o DOT_MD)),
                   fsStat(d, journalPath))
        anchorsRead(a) ==
            IF ~isDefined(env) THEN Throw(d, "TypeError", a.acc)
            ELSE located(reflectionContent(args, timestamp,
                             anchorsInfo(IF a.ok THEN entityMatches(a.val) ELSE 0)),
                         a.acc,
                         resolve(pathJoin(env[1], DREAM_JOURNAL_MD)))
    IN  anchorsRead(readMemory(d, CONTEXT_ANCHORS))

(***************************************************************************)
(* learn                                                                   *)
(***************************************************************************)
\* 'me'
ME ==
    <<"m", "e">>
\* 'Behavioral Learnings'
BEHAVIORAL_LEARNINGS ==
    <<"B", "e", "h", "a", "v", "i", "o", "r", "a", "l", " ", "L", "e", "a", "r", "n",
      "i", "n", "g", "s">>
\* '### '
SECTION_OPEN ==
    <<"#", "#", "#", " ">>
\* '\n### '
LEARNING_OPEN ==
    <<"\n", "#", "#", "#", " ">>
\* ' - Updated '
UPDATED ==
    <<" ", "-", " ", "U", "p", "d", "a", "t", "e", "d", " ">>
\* '\n\n**Rationale**: '
RATIONALE_MARK ==
    <<"\n", "\n", "*", "*", "R", "a", "t", "i", "o", "n", "a", "l", "e", "*", "*", ":",
      " ">>
\* '\n\n---\n\n'
LEARNING_CLOSE ==
    <<"\n", "\n", "-", "-", "-", "\n", "\n">>
\* '\n---\n'
DELIMITER ==
    <<"\n", "-", "-", "-", "\n">>
\* '\n##'
NEXT_HEADING ==
    <<"\n", "#", "#">>
\* '# Base Instructions (me.md)\n\n*This file contains behavioral learnings that have been integrated into the base prompt.*\n*Interface files (CLAUDE.md, custom_modes.yaml, etc.) should reference this location.*\n\n'
NEW_ME_PREAMBLE ==
    <<"#", " ", "B", "a", "s", "e", " ", "I", "n", "s", "t", "r", "u", "c", "t", "i",
      "o", "n", "s", " ", "(", "m", "e", ".", "m", "d", ")", "\n", "\n", "*", "T", "h",
      "i", "s", " ", "f", "i", "l", "e", " ", "c", "o", "n", "t", "a", "i", "n", "s",
      " ", "b", "e", "h", "a", "v", "i", "o", "r", "a", "l", " ", "l", "e", "a", "r",
      "n", "i", "n", "g", "s", " ", "t", "h", "a", "t", " ", "h", "a", "v", "e", " ",
      "b", "e", "e", "n", " ", "i", "n", "t", "e", "g", "r", "a", "t", "e", "d", " ",
      "i", "n", "t", "o", " ", "t", "h", "e", " ", "b", "a", "s", "e", " ", "p", "r",
      "o", "m", "p", "t", ".", "*", "\n", "*", "I", "n", "t", "e", "r", "f", "a", "c",
      "e", " ", "f", "i", "l", "e", "s", " ", "(", "C", "L", "A", "U", "D", "E", ".",
      "m", "d", ",", " ", "c", "u", "s", "t", "o", "m", "_", "m", "o", "d", "e", "s",
      ".", "y", "a", "m", "l", ",", " ", "e", "t", "c", ".", ")", " ", "s", "h", "o",
      "u", "l", "d", " ", "r", "e", "f", "e", "r", "e", "n", "c", "e", " ", "t", "h",
      "i", "s", " ", "l", "o", "c", "a", "t", "i", "o", "n", ".", "*", "\n", "\n">>
\* 'Base instructions updated: '
INSTRUCTIONS_UPDATED ==
    <<"B", "a", "s", "e", " ", "i", "n", "s", "t", "r", "u", "c", "t", "i", "o", "n",
      "s", " ", "u", "p", "d", "a", "t", "e", "d", ":", " ">>
\* 'Base instructions created: '
INSTRUCTIONS_CREATED ==
    <<"B", "a", "s", "e", " ", "i", "n", "s", "t", "r", "u", "c", "t", "i", "o", "n",
      "s", " ", "c", "r", "e", "a", "t", "e", "d", ":", " ">>

\* The learningEntry template.
learningEntry(section, dateStamp, rationale, content) ==
    LEARNING_OPEN \o section \o UPDATED \o dateStamp
        \o RATIONALE_MARK \o rationale \o <<"\n", "\n">> \o content \o LEARNING_CLOSE

\* new RegExp(source) throws a SyntaxError for a group that is opened and never
\* closed. The section names of the model hold at most that one kind of pattern
\* character; every other character of theirs matches itself.
regExpThrows(section) ==
    \E i \in 1..Len(section) :
        section[i] = "(" /\ \A j \in (i + 1)..Len(section) : section[j] # ")"

\* existingMe.match(/(### <section>.*?)(\n---\n|\n##|$)/s): the match starts at the
\* first '### <section>'; the lazy .*? stops at the first position where
\* '\n---\n' or '\n##' begins, or at the end of the text.
sectionMatch(existingMe, section) ==
    LET head == SECTION_OPEN \o section
        start == indexOf(existingMe, head)
        n == Len(existingMe)
        closes(k) ==
            \/ k = n + 1
            \/ k + 4 <= n /\ SubSeq(existingMe, k, k + 4) = DELIMITER
            \/ k + 2 <= n /\ SubSeq(existingMe, k, k + 2) = NEXT_HEADING
        stop == CHOOSE k \in (start + Len(head))..(n + 1) :
                    closes(k) /\ \A j \in (start + Len(head))..(k - 1) : ~closes(j)
        closer == IF stop + 4 <= n /\ SubSeq(existingMe, stop, stop + 4) = DELIMITER
                  THEN DELIMITER
                  ELSE IF stop = n + 1 THEN <<>> ELSE NEXT_HEADING
    IN  IF start = 0 THEN Undefined
        ELSE Some([index |-> start,
                   g1 |-> SubSeq(existingMe, start, stop - 1),
                   g2 |-> closer])

\* GetSubstitution: the replacement patterns $$, $&, $`, $', $1, $2, $01 and
\* $02 of a replacement string, for a match with two groups; any other '$' is
\* kept as it is.
RECURSIVE getSubstitution(_, _, _, _)
getSubstitution(rep, m, before, after) ==
    LET i == indexOf(rep, <<"$">>)
        n == Len(rep)
        c1 == IF i + 1 <= n THEN rep[i + 1] ELSE ""
        c2 == IF i + 2 <= n THEN rep[i + 2] ELSE ""
        rest(k) == getSubstitution(SubSeq(rep, i + k, n), m, before, after)
        lead == SubSeq(rep, 1, i - 1)
    IN  IF i = 0 THEN rep
        ELSE IF c1 = "$" THEN lead \o <<"$">> \o rest(2)
        ELSE IF c1 = "&" THEN lead \o m.g1 \o m.g2 \o rest(2)
        ELSE IF c1 = "`" THEN lead \o before \o rest(2)
        ELSE IF c1 = "'" THEN lead \o after \o rest(2)
        ELSE IF c1 = "0" /\ c2 = "1" THEN lead \o m.g1 \o rest(3)
        ELSE IF c1 = "0" /\ c2 = "2" THEN lead \o m.g2 \o rest(3)
        ELSE IF c1 = "1" THEN lead \o m.g1 \o rest(2)
        ELSE IF c1 = "2" THEN lead \o m.g2 \o rest(2)
        ELSE lead \o <<"$">> \o rest(1)

\* existingMe.replace(sectionRegex, learningEntry) for the match m.
replaceMatch(existingMe, m, rep) ==
    LET before == SubSeq(existingMe, 1, m.index - 1)
        after == SubSeq(existingMe, m.index + Len(m.g1) + Len(m.g2), Len(existingMe))
    IN  before \o getSubstitution(rep, m, before, after) \o after

\* learn({ section = 'Behavioral Learnings', content, rationale })
learn(d, t, args) ==
    LET section == IF isDefined(args.section) THEN args.section[1] ELSE BEHAVIORAL_LEARNINGS
        entry == learningEntry(section, dateStampOf(toISOString(t)),
                               args.rationale, args.content)
        finished(action, text, acc, w) ==
            Reply(w.disk,
                  [success |-> TRUE, message |-> text \o section,
                   section_updated |-> section, action |-> action],
                  acc \cup w.acc)
        \* the catch block: any failure of the try block lands here
        created(acc, w) ==
            IF ~w.ok THEN Throw(w.disk, w.err, acc \cup w.acc)
            ELSE finished("created", INSTRUCTIONS_CREATED, acc, w)
        catch(d1, acc) ==
            created(acc, writeMemory(d1, ME, NEW_ME_PREAMBLE \o entry))
        \* the try block
        written(action, acc, w) ==
            IF ~w.ok THEN catch(w.disk, acc \cup w.acc)
            ELSE finished(action, INSTRUCTIONS_UPDATED, acc, w)
        matched(r, m) ==
            IF isDefined(m)
            THEN written("replaced", r.acc,
                         writeMemory(d, ME, replaceMatch(r.val, m[1], entry)))
            ELSE written("appended", r.acc, writeMemory(d, ME, r.val \o entry))
        try(r) ==
            IF ~r.ok THEN catch(d, r.acc)
            ELSE IF regExpThrows(section) THEN catch(d, r.acc)
            ELSE matched(r, sectionMatch(r.val, section))
    IN  try(readMemory(d, ME))

(***************************************************************************)
(* The inputs of the model: logical paths, texts, prefixes.                *)
(***************************************************************************)
\* 'a'
P_A ==
    <<"a">>
\* 'b/a'
P_BA ==
    <<"b", "/", "a">>
\* 'b/../a'
P_ALIAS ==
    <<"b", "/", ".", ".", "/", "a">>
\* '../x'
P_UP ==
    <<".", ".", "/", "x">>
\* '../mx/a'
P_SIB ==
    <<".", ".", "/", "m", "x", "/", "a">>
\* 'a.mdx'
P_MDX ==
    <<"a", ".", "m", "d", "x">>
\* 'a.md/b'
P_COL ==
    <<"a", ".", "m", "d", "/", "b">>
\* ''
T_EMPTY ==
    <<>>
\* 'x'
T_X ==
    <<"x">>
\* 'x\n'
T_XN ==
    <<"x", "\n">>
\* 'x\ny'
T_XY ==
    <<"x", "\n", "y">>
\* 'x\ny\nz'
T_XYZ ==
    <<"x", "\n", "y", "\n", "z">>
\* '/c'
OTHER_DIR ==
    <<"/", "c">>
\* 'b/'
PRE_B ==
    <<"b", "/">>
\* 'a'
PRE_A ==
    <<"a">>
\* 'q/'
PRE_Q ==
    <<"q", "/">>

\* 'context'
N_CONTEXT ==
    <<"c", "o", "n", "t", "e", "x", "t">>
\* 'insight'
N_INSIGHT ==
    <<"i", "n", "s", "i", "g", "h", "t">>
\* 'decision'
N_DECISION ==
    <<"d", "e", "c", "i", "s", "i", "o", "n">>
\* 'high'
I_HIGH ==
    <<"h", "i", "g", "h">>
\* 'low'
I_LOW ==
    <<"l", "o", "w">>
\* 'A'
T_A ==
    <<"A">>
\* 'B'
T_B ==
    <<"B">>
\* 's'
T_SUMMARY ==
    <<"s">>
\* 'daily'
R_DAILY ==
    <<"d", "a", "i", "l", "y">>

\* Logical paths: plain, nested, with a '..' that stays inside, two that leave
\* MEMORY_DIR (one into a sibling whose name extends MEMORY_DIR's), one whose
\* name holds '.md' before its end, and one below a directory named like a file.
EntityPaths == {P_A, P_BA, P_ALIAS, P_UP, P_SIB, P_MDX, P_COL}
Texts == {T_EMPTY, T_XYZ}
Documents == {T_EMPTY, T_X, T_XN, T_XY, T_XYZ}
Prefixes == {Undefined, Some(T_EMPTY), Some(PRE_B), Some(PRE_A), Some(PRE_Q)}

Opt(S) == {Undefined} \cup {Some(v) : v \in S}

NoSelector == [tail |-> Undefined, head |-> Undefined, offset |-> Undefined, limit |-> Undefined]

\* The selectors a caller may send: none, tail and/or head, offset and/or limit.
Selectors ==
    {[NoSelector EXCEPT !.tail = tl, !.head = hd] : tl \in Opt(0..MaxSel), hd \in Opt(0..MaxSel)}
    \cup {[NoSelector EXCEPT !.offset = o, !.limit = l] : o \in Opt(0..MaxSel), l \in Opt(0..MaxSel)}

(***************************************************************************)
(* The state machine.                                                      *)
(***************************************************************************)
\* The segments of a physical path, and whether it is MEMORY_DIR or below it.
segsOf(path) == normSegs(split(path, "/"), <<>>)

inMemoryDir(path) ==
    LET segs == segsOf(path)
        root == segsOf(MEMORY_DIR)
    IN  Len(segs) >= Len(root) /\ SubSeq(segs, 1, Len(root)) = root

\* The location a logical path names: MEMORY_DIR joined with path + '.md',
\* '.' and '..' resolved, as a sequence of segments.
locationOf(userPath) ==
    normSegs(segsOf(MEMORY_DIR) \o split(userPath \o DOT_MD, "/"), <<>>)

escapes(userPath) ==
    LET loc == locationOf(userPath)
        root == segsOf(MEMORY_DIR)
    IN  Len(loc) < Len(root) \/ SubSeq(loc, 1, Len(root)) # root

NoCall == [op |-> "none", args |-> <<>>, ok |-> TRUE, err |-> "", out |-> <<>>]

\* The callers that may have a call in flight at the same time, and the state
\* in which none has: a call that runs alone runs from its first step to its
\* return with no other call's step in between.  A call holds its locals
\* (args, the instant at of its timestamp, text, size, buf) and its history:
\* due, whether the journal had ROTATION_THRESHOLD bytes or more when the call
\* began; moved, whether its fs.rename has succeeded; ok, whether it returned
\* a result.  A caller keeps the record of its last call until its next one.
Callers == {1, 2}
Returned ==
    [pc |-> "returned", op |-> "none", args |-> <<>>, at |-> 0, text |-> <<>>,
     size |-> 0, buf |-> <<>>, due |-> FALSE, moved |-> FALSE, ok |-> TRUE]
NoCalls == [p \in Callers |-> Returned]

EmptyDisk == [p \in {SLASH} |-> DirNode]
RootOnlyDisk == [p \in {SLASH, MEMORY_DIR} |-> DirNode]

\* A call counts against MaxOps when the specification bounds its runs.
Count(bounded) ==
    IF bounded THEN nops < MaxOps /\ nops' = nops + 1 ELSE nops' = nops

\* The effect of a tool call with outcome h.
Finish(op, args, h) ==
    /\ disk' = h.disk
    /\ res' = [op |-> op, args |-> args, ok |-> h.ok, err |-> h.err, out |-> h.out]
    /\ touched' = touched \cup {p \in h.acc : ~inMemoryDir(p)}
    /\ calls' = calls

WriteEntityCall(paths, texts, bounded) ==
    \E p \in paths, c \in texts :
        LET args == [entity_path |-> p, content |-> c]
            called(h) ==
                /\ Finish("writeEntity", args, h)
                /\ lastPut' = IF h.ok
                              THEN [l \in DOMAIN lastPut \cup {locationOf(p)} |->
                                       IF l = locationOf(p) THEN c ELSE lastPut[l]]
                              ELSE lastPut
        IN  /\ Count(bounded)
            /\ called(writeEntity(disk, args))
            /\ UNCHANGED <<codieDir, now, noteLog>>

ReadEntityCall(paths, sels, bounded) ==
    \E p \in paths, sel \in sels :
        LET args == [entity_path |-> p, tail |-> sel.tail, head |-> sel.head,
                     offset |-> sel.offset, limit |-> sel.limit]
        IN  /\ Count(bounded)
            /\ Finish("readEntity", args, readEntity(disk, args))
            /\ UNCHANGED <<codieDir, now, lastPut, noteLog>>

ListEntitiesCall(prefixes, bounded) ==
    \E f \in prefixes :
        LET args == [filter_prefix |-> f]
        IN  /\ Count(bounded)
            /\ Finish("listEntities", args, listEntities(disk, args))
            /\ UNCHANGED <<codieDir, now, lastPut, noteLog>>

AddNoteCall(types, importances, texts, bounded) ==
    \E ty \in types, im \in importances, c \in texts :
        LET args == [note_type |-> ty, content |-> c, importance |-> im]
            called(h) ==
                /\ Finish("addSessionNote", args, h)
                /\ noteLog' = IF h.ok THEN Append(noteLog, [args |-> args, at |-> now])
                              ELSE noteLog
        IN  /\ Count(bounded)
            /\ Len(noteLog) < MaxNotes
            /\ called(addSessionNote(disk, now, args))
            /\ UNCHANGED <<codieDir, now, lastPut>>

\* The batches of at most MaxBatch entities over the given paths.
Batches(paths, texts) ==
    UNION {[1..n -> [path : paths, content : texts, anchor_summary : {T_SUMMARY}]] :
           n \in 1..MaxBatch}

DeepLearnCall(paths, texts, bounded) ==
    \E batch \in Batches(paths, texts) :
        LET args == [entities |-> batch]
        IN  /\ Count(bounded)
            /\ Finish("deepLearn", args, deepLearn(disk, now, args))
            /\ UNCHANGED <<codieDir, now, lastPut, noteLog>>

ReflectCall(types, growths, bounded) ==
    \E ty \in types, g \in growths :
        LET args == [reflection_type |-> ty, key_insights |-> <<T_A, T_B>>,
                     cognitive_growth |-> g, future_focus |-> Undefined]
        IN  /\ Count(bounded)
            /\ Finish("synthesisReflection", args, synthesisReflection(disk, codieDir, now, args))
            /\ UNCHANGED <<codieDir, now, lastPut, noteLog>>

\* Time passes between calls.
Tick ==
    /\ now < MaxClock
    /\ now' = now + 1
    /\ UNCHANGED <<disk, codieDir, res, touched, lastPut, noteLog, nops, calls>>

\* The document store alone: writeEntity, readEntity and listEntities from a
\* missing or an empty MEMORY_DIR.
InitStore ==
    /\ disk \in {EmptyDisk, RootOnlyDisk}
    /\ codieDir = Undefined
    /\ now = 0
    /\ res = NoCall
    /\ touched = {}
    /\ lastPut = <<>>
    /\ noteLog = <<>>
    /\ nops = 0
    /\ calls = NoCalls

NextStore ==
    \/ WriteEntityCall(EntityPaths, Texts, FALSE)
    \/ ReadEntityCall(EntityPaths, {NoSelector}, FALSE)
    \/ ListEntitiesCall(Prefixes, FALSE)

SpecStore == InitStore /\ [][NextStore]_vars

\* Pagination: readEntity with every selector on a stored document.
InitRead ==
    /\ \E doc \in Documents : disk = writeMemory(EmptyDisk, P_A, doc).disk
    /\ codieDir = Undefined
    /\ now = 0
    /\ res = NoCall
    /\ touched = {}
    /\ lastPut = <<>>
    /\ noteLog = <<>>
    /\ nops = 0
    /\ calls = NoCalls

NextRead == ReadEntityCall({P_A}, Selectors, FALSE)

SpecRead == InitRead /\ [][NextRead]_vars

\* The session log: addSessionNote calls from an absent session document.
NextSession ==
    \/ AddNoteCall({N_CONTEXT, N_INSIGHT}, {Undefined, Some(I_HIGH)}, {T_A, T_B}, FALSE)
    \/ Tick

SpecSession == InitStore /\ [][NextSession]_vars

\* Every tool of the server, in runs of at most MaxOps calls, under each setting
\* of CODIE_MEMORY_PATH: unset, MEMORY_DIR, another directory.
Init ==
    /\ disk \in {EmptyDisk, RootOnlyDisk}
    /\ codieDir \in {Undefined, Some(MEMORY_DIR), Some(OTHER_DIR)}
    /\ now = 0
    /\ res = NoCall
    /\ touched = {}
    /\ lastPut = <<>>
    /\ noteLog = <<>>
    /\ nops = 0
    /\ calls = NoCalls

Next ==
    \/ WriteEntityCall({P_A, P_UP}, {T_XYZ}, TRUE)
    \/ ReadEntityCall({P_A, P_UP}, {NoSelector}, TRUE)
    \/ ListEntitiesCall({Undefined}, TRUE)
    \/ AddNoteCall({N_DECISION}, {Some(I_LOW)}, {T_A}, TRUE)
    \/ DeepLearnCall({P_A, P_BA, P_UP}, {T_XN}, TRUE)
    \/ ReflectCall({R_DAILY}, {Undefined, Some(T_A)}, TRUE)
    \/ Tick

Spec == Init /\ [][Next]_vars

\* String.prototype.repeat for a one-character string.
repeat(ch, n) == [i \in 1..n |-> ch]

\* Note contents that bring a fresh session with one note to exactly
\* ARCHIVE_MIN_LENGTH characters, and to one more.
T_N132 == repeat("n", 132)
T_N133 == repeat("n", 133)

\* '# Context Anchors\n\n## E\n': a ledger written before any deepLearn.
T_LEDGER ==
    <<"#", " ", "C", "o", "n", "t", "e", "x", "t", " ", "A", "n", "c", "h", "o", "r",
      "s", "\n", "\n", "#", "#", " ", "E", "\n">>

\* A memory directory holding that ledger and the entity 'a'.
LedgerDisk ==
    [p \in {SLASH, MEMORY_DIR, MEMORY_DIR \o SLASH \o CONTEXT_ANCHORS \o DOT_MD,
            MEMORY_DIR \o SLASH \o P_A \o DOT_MD} |->
        IF p \in {SLASH, MEMORY_DIR} THEN DirNode
        ELSE IF p = MEMORY_DIR \o SLASH \o P_A \o DOT_MD THEN FileNode(T_X)
        ELSE FileNode(T_LEDGER)]

\* Notes and consolidations: at most MaxNotes notes and MaxOps deepLearn calls.
InitLearn ==
    /\ disk \in {RootOnlyDisk, LedgerDisk}
    /\ codieDir = Some(MEMORY_DIR)
    /\ now = 0
    /\ res = NoCall
    /\ touched = {}
    /\ lastPut = <<>>
    /\ noteLog = <<>>
    /\ nops = 0
    /\ calls = NoCalls

NextLearn ==
    \/ AddNoteCall({N_INSIGHT}, {Undefined}, {T_N132, T_N133}, FALSE)
    \/ DeepLearnCall({P_BA, P_COL, P_UP}, {T_XN}, TRUE)
    \/ Tick

SpecLearn == InitLearn /\ [][NextLearn]_vars

\* A journal one byte short of ROTATION_THRESHOLD: '# Dream Journal' + 'x'.repeat(...)
J_UNDER == SubSeq(JOURNAL_DEFAULT, 1, 15) \o <<BLOCK>>
\* A journal of exactly ROTATION_THRESHOLD bytes: '# Dream Journal\n' + 'x'.repeat(...)
J_AT == JOURNAL_DEFAULT \o <<BLOCK>>
\* '# Dream Journal\n' + 'x'.repeat(1048577)
J_OVER == JOURNAL_DEFAULT \o <<BLOCK>> \o repeat("x", 1048577 - BLOCK_SIZE)
\* A key insight of BLOCK_SIZE characters.
T_HUGE == <<BLOCK>>

\* A directory outside MEMORY_DIR holding a journal of ROTATION_THRESHOLD bytes.
OtherJournalDisk ==
    [p \in {SLASH, MEMORY_DIR, OTHER_DIR, OTHER_DIR \o SLASH \o DREAM_JOURNAL_MD} |->
        IF p = OTHER_DIR \o SLASH \o DREAM_JOURNAL_MD THEN FileNode(J_AT) ELSE DirNode]

\* synthesisReflection with the key insights chosen by the caller.
ReflectInsightsCall(types, insights, bounded) ==
    \E ty \in types, ki \in insights :
        LET args == [reflection_type |-> ty, key_insights |-> ki,
                     cognitive_growth |-> Undefined, future_focus |-> Undefined]
        IN  /\ Count(bounded)
            /\ Finish("synthesisReflection", args, synthesisReflection(disk, codieDir, now, args))
            /\ UNCHANGED <<codieDir, now, lastPut, noteLog>>

\* Journal rotation: the journal is written at, under and over the threshold
\* and reflected on, with CODIE_MEMORY_PATH unset, equal to MEMORY_DIR or
\* naming another directory.
InitJournal ==
    /\ disk \in {RootOnlyDisk, OtherJournalDisk}
    /\ codieDir \in {Undefined, Some(MEMORY_DIR), Some(OTHER_DIR)}
    /\ now = 0
    /\ res = NoCall
    /\ touched = {}
    /\ lastPut = <<>>
    /\ noteLog = <<>>
    /\ nops = 0
    /\ calls = NoCalls

NextJournal ==
    \/ WriteEntityCall({DREAM_JOURNAL}, {J_UNDER, J_AT, J_OVER}, TRUE)
    \/ ReflectInsightsCall({R_DAILY}, {<<T_A>>, <<T_HUGE>>}, TRUE)
    \/ Tick

SpecJournal == InitJournal /\ [][NextJournal]_vars

\* 'S'
SEC_S ==
    <<"S">>
\* 'Sx'
SEC_SX ==
    <<"S", "x">>
\* 'S(x'
SEC_GROUP ==
    <<"S", "(", "x">>
\* 'x\n## y'
T_SUB ==
    <<"x", "\n", "#", "#", " ", "y">>
\* '$&'
T_AMP ==
    <<"$", "&">>
\* '# Me\n\n### S\n\nb\n\n### Sx\n\nc\n'
DOC_PLAIN ==
    <<"#", " ", "M", "e", "\n", "\n", "#", "#", "#", " ", "S", "\n", "\n", "b", "\n",
      "\n", "#", "#", "#", " ", "S", "x", "\n", "\n", "c", "\n">>

LearnCall(sections, contents, rationales, bounded) ==
    \E sec \in sections, c \in contents, r \in rationales :
        LET args == [section |-> sec, content |-> c, rationale |-> r]
        IN  /\ Count(bounded)
            /\ Finish("learn", args, learn(disk, now, args))
            /\ UNCHANGED <<codieDir, now, lastPut, noteLog>>

\* The instructions document: learn calls with plain, prefix-sharing and
\* non-compiling section names on a document that is absent, written by
\* earlier calls or written by hand without delimiters.
InitInstructions ==
    /\ disk = RootOnlyDisk
    /\ codieDir = Some(MEMORY_DIR)
    /\ now = 0
    /\ res = NoCall
    /\ touched = {}
    /\ lastPut = <<>>
    /\ noteLog = <<>>
    /\ nops = 0
    /\ calls = NoCalls

NextInstructions ==
    \/ LearnCall({Undefined, Some(SEC_S), Some(SEC_SX), Some(SEC_GROUP)},
                 {T_X, T_SUB, T_AMP}, {T_A, T_B}, TRUE)
    \/ WriteEntityCall({ME}, {DOC_PLAIN}, TRUE)
    \/ Tick

SpecInstructions == InitInstructions /\ [][NextInstructions]_vars

\* A directory inside MEMORY_DIR, '/m/b', holding a journal of ROTATION_THRESHOLD
\* bytes: the entity 'b/dream_journal'.
SUB_DIR == MEMORY_DIR \o SLASH \o <<"b">>
SubJournalDisk ==
    [p \in {SLASH, MEMORY_DIR, SUB_DIR, SUB_DIR \o SLASH \o DREAM_JOURNAL_MD} |->
        IF p = SUB_DIR \o SLASH \o DREAM_JOURNAL_MD THEN FileNode(J_AT) ELSE DirNode]

\* Every tool of the server on the documents the tools share, in runs of at most
\* MaxOps calls, with CODIE_MEMORY_PATH naming MEMORY_DIR or a directory in it.
InitShared ==
    /\ disk \in {RootOnlyDisk, SubJournalDisk}
    /\ codieDir \in {Some(MEMORY_DIR), Some(SUB_DIR)}
    /\ now = 0
    /\ res = NoCall
    /\ touched = {}
    /\ lastPut = <<>>
    /\ noteLog = <<>>
    /\ nops = 0
    /\ calls = NoCalls

NextShared ==
    \/ WriteEntityCall({CURRENT_SESSION, P_A}, {T_X}, TRUE)
    \/ ReadEntityCall({CURRENT_SESSION}, {NoSelector}, TRUE)
    \/ ListEntitiesCall({Undefined}, TRUE)
    \/ AddNoteCall({N_INSIGHT}, {Undefined}, {T_A}, TRUE)
    \/ DeepLearnCall({P_A}, {T_XN}, TRUE)
    \/ ReflectInsightsCall({R_DAILY}, {<<T_A>>}, TRUE)
    \/ LearnCall({Some(SEC_S)}, {T_X}, {T_A}, TRUE)
    \/ Tick

SpecShared == InitShared /\ [][NextShared]_vars

\* '# Current Session\nk\n'
T_SESSION ==
    <<"#", " ", "C", "u", "r", "r", "e", "n", "t", " ", "S", "e", "s", "s", "i", "o",
      "n", "\n", "k", "\n">>
\* '# Dream Journal\nk\n'
T_JOURNAL ==
    <<"#", " ", "D", "r", "e", "a", "m", " ", "J", "o", "u", "r", "n", "a", "l", "\n",
      "k", "\n">>

\* The shared documents, each with a text to lose.
SharedDocuments ==
    [p \in {CURRENT_SESSION, CONTEXT_ANCHORS, ME, DREAM_JOURNAL} |->
        IF p = CURRENT_SESSION THEN T_SESSION
        ELSE IF p = CONTEXT_ANCHORS THEN T_LEDGER
        ELSE IF p = ME THEN DOC_PLAIN
        ELSE T_JOURNAL]

\* MEMORY_DIR holding the documents of the set docs as files of mode 0200.
WriteOnlyDisk(docs) ==
    LET files == {resolve(pathJoin(MEMORY_DIR, p \o DOT_MD)) : p \in docs}
    IN  [q \in {SLASH, MEMORY_DIR} \cup files |->
            IF q \in files
            THEN WriteOnlyNode(SharedDocuments[
                     CHOOSE p \in docs : resolve(pathJoin(MEMORY_DIR, p \o DOT_MD)) = q])
            ELSE DirNode]

\* Storage failures: the tools that read and rewrite a shared document, on
\* documents that exist and cannot be read.
InitFaults ==
    /\ \E docs \in SUBSET DOMAIN SharedDocuments : disk = WriteOnlyDisk(docs)
    /\ codieDir = Some(MEMORY_DIR)
    /\ now = 0
    /\ res = NoCall
    /\ touched = {}
    /\ lastPut = <<>>
    /\ noteLog = <<>>
    /\ nops = 0
    /\ calls = NoCalls

NextFaults ==
    \/ AddNoteCall({N_INSIGHT}, {Undefined}, {T_A}, TRUE)
    \/ DeepLearnCall({P_A}, {T_XN}, TRUE)
    \/ ReflectInsightsCall({R_DAILY}, {<<T_A>>}, TRUE)
    \/ LearnCall({Some(SEC_S)}, {T_X}, {T_A}, TRUE)
    \/ Tick

SpecFaults == InitFaults /\ [][NextFaults]_vars

(***************************************************************************)
(* Calls in flight together.  A handler is an async function: it runs to   *)
(* its next await, and while the storage operation it awaits is pending    *)
(* the handlers of other requests run.  Each action below is the part of a *)
(* handler from one await to the next, with the storage operation awaited. *)
(***************************************************************************)
\* The call of caller p goes on to position c.
Await(p, c) == calls' = [calls EXCEPT ![p] = c]

\* The call of caller p returns (or throws) h.
Return(p, h) ==
    /\ res' = [op |-> calls[p].op, args |-> calls[p].args, ok |-> h.ok, err |-> h.err,
               out |-> h.out]
    /\ calls' = [calls EXCEPT ![p] = [calls[p] EXCEPT !.pc = "returned", !.ok = h.ok]]

\* addSessionNote up to `await readMemory('current_session')`: the timestamp is
\* taken and the read is issued.
AddNoteBegin(p, types, importances, texts) ==
    \E ty \in types, im \in importances, c \in texts :
        /\ calls[p].pc = "returned"
        /\ Count(TRUE)
        /\ Await(p, [Returned EXCEPT !.pc = "note.readFile", !.op = "addSessionNote",
                        !.args = [note_type |-> ty, content |-> c, importance |-> im],
                        !.at = now])
        /\ UNCHANGED <<disk, codieDir, now, res, touched, lastPut, noteLog>>

\* The read completes: currentSession is the text read, or the default header;
\* writeMemory is entered and awaits fs.mkdir.
AddNoteReadFile(p) ==
    LET read(r) ==
            Await(p, [calls[p] EXCEPT !.pc = "note.mkdir",
                         !.text = IF r.ok THEN r.val ELSE SESSION_DEFAULT])
    IN  /\ calls[p].pc = "note.readFile"
        /\ read(readMemory(disk, CURRENT_SESSION))
        /\ UNCHANGED <<disk, codieDir, now, res, touched, lastPut, noteLog, nops>>

\* fs.mkdir(dirname(fullPath), { recursive: true }) of writeMemory completes.
AddNoteMkdir(p) ==
    LET made(m) ==
            IF ~m.ok
            THEN /\ Return(p, Throw(disk, m.err, {}))
                 /\ disk' = disk
            ELSE /\ Await(p, [calls[p] EXCEPT !.pc = "note.writeFile"])
                 /\ disk' = m.disk
                 /\ res' = res
    IN  /\ calls[p].pc = "note.mkdir"
        /\ made(fsMkdir(disk, dirname(validatePath(CURRENT_SESSION).fullPath)))
        /\ UNCHANGED <<codieDir, now, touched, lastPut, noteLog, nops>>

\* currentSession + formattedNote, as the call of c computes it.
pendingNote(c) ==
    c.text \o formattedNote(c.args.note_type,
                            IF isDefined(c.args.importance) THEN c.args.importance[1]
                            ELSE MEDIUM,
                            toISOString(c.at), c.args.content)

\* The last step of addSessionNote appending to the file as it is then.
AddNoteWriteFile_append(p) ==
    LET fullPath == validatePath(CURRENT_SESSION).fullPath
        written(w) ==
            /\ disk' = w.disk
            /\ Return(p, IF ~w.ok THEN Throw(w.disk, w.err, {})
                         ELSE Reply(w.disk, [success |-> TRUE,
                                             message |-> calls[p].args.note_type \o NOTE_ADDED],
                                    {}))
            /\ noteLog' = IF w.ok
                          THEN Append(noteLog, [args |-> calls[p].args, at |-> calls[p].at])
                          ELSE noteLog
    IN  /\ calls[p].pc = "note.writeFile"
        /\ written(fsWriteFile(disk, fullPath,
               pendingNote([calls[p] EXCEPT
                   !.text = IF isFile(disk, fullPath) THEN disk[fullPath].data
                            ELSE SESSION_DEFAULT])))
        /\ UNCHANGED <<codieDir, now, touched, lastPut, nops>>

\* fs.writeFile(fullPath, content) of writeMemory completes and addSessionNote returns.
AddNoteWriteFile(p) ==
    LET fullPath == validatePath(CURRENT_SESSION).fullPath
        written(w) ==
            /\ disk' = w.disk
            /\ Return(p, IF ~w.ok THEN Throw(w.disk, w.err, {})
                         ELSE Reply(w.disk, [success |-> TRUE,
                                             message |-> calls[p].args.note_type \o NOTE_ADDED],
                                    {}))
            /\ noteLog' = IF w.ok
                          THEN Append(noteLog, [args |-> calls[p].args, at |-> calls[p].at])
                          ELSE noteLog
    IN  /\ calls[p].pc = "note.writeFile"
        /\ written(fsWriteFile(disk, fullPath, pendingNote(calls[p])))
        /\ UNCHANGED <<codieDir, now, touched, lastPut, nops>>

\* addSessionNote calls of two callers, their steps interleaved in every order,
\* from a missing or an empty MEMORY_DIR.
NextNotes ==
    \/ \E p \in Callers : AddNoteBegin(p, {N_INSIGHT, N_DECISION}, {Undefined}, {T_A, T_B})
    \/ \E p \in Callers : AddNoteReadFile(p)
    \/ \E p \in Callers : AddNoteMkdir(p)
    \/ \E p \in Callers : AddNoteWriteFile(p)
    \/ Tick

SpecNotes == InitStore /\ [][NextNotes]_vars

\* The storage operation awaited completes with its outcome, or fails with an
\* I/O error and no effect when fault is TRUE.
Storage(fault, outcome) ==
    IF fault THEN FsErr(disk, "EIO") ELSE outcome

\* The paths handed to the storage outside MEMORY_DIR are recorded.
Touch(paths) == touched' = touched \cup {q \in paths : ~inMemoryDir(q)}

\* synthesisReflection up to `await readMemory('context_anchors')`.
ReflectBegin(p, types, insights) ==
    \E ty \in types, ki \in insights :
        /\ calls[p].pc = "returned"
        /\ Count(TRUE)
        /\ Await(p, [Returned EXCEPT !.pc = "reflect.anchors", !.op = "synthesisReflection",
                        !.args = [reflection_type |-> ty, key_insights |-> ki,
                                  cognitive_growth |-> Undefined,
                                  future_focus |-> Undefined],
                        !.at = now,
                        !.due = LET st == fsStat(disk, validatePath(DREAM_JOURNAL).fullPath)
                                IN  st.ok /\ st.val.size >= ROTATION_THRESHOLD])
        /\ UNCHANGED <<disk, codieDir, now, res, touched, lastPut, noteLog>>

\* The ledger is read (or not): reflectionContent is built, journalPath is
\* computed (join(undefined, ...) throws) and fs.stat(journalPath) is awaited.
ReflectAnchors(p, faults) ==
    LET anchorsInfo(n) ==
            IF n > 0 THEN ANCHORS_INFO_OPEN \o natToString(n) \o ANCHORS_INFO_CLOSE ELSE <<>>
        read(a) ==
            IF ~isDefined(codieDir)
            THEN Return(p, Throw(disk, "TypeError", {}))
            ELSE /\ Await(p, [calls[p] EXCEPT !.pc = "reflect.stat",
                                 !.text = reflectionContent(calls[p].args,
                                              toISOString(calls[p].at),
                                              anchorsInfo(IF a.ok THEN entityMatches(a.val)
                                                          ELSE 0))])
                 /\ res' = res
    IN  /\ calls[p].pc = "reflect.anchors"
        /\ \E f \in faults :
              read(Storage(f, fsReadFile(disk, validatePath(CONTEXT_ANCHORS).fullPath)))
        /\ UNCHANGED <<disk, codieDir, now, touched, lastPut, noteLog, nops>>

\* fs.stat completes: at ROTATION_THRESHOLD bytes or more fs.rename is awaited;
\* otherwise, and when it fails, control passes the try block to
\* `await readMemory('dream_journal')`.
ReflectStat(p, faults) ==
    LET journalPath == resolve(pathJoin(codieDir[1], DREAM_JOURNAL_MD))
        stat(st) ==
            IF st.ok /\ st.val.size >= ROTATION_THRESHOLD
            THEN Await(p, [calls[p] EXCEPT !.pc = "reflect.rename", !.size = st.val.size])
            ELSE Await(p, [calls[p] EXCEPT !.pc = "reflect.readFile"])
    IN  /\ calls[p].pc = "reflect.stat"
        /\ \E f \in faults : stat(Storage(f, fsStat(disk, journalPath)))
        /\ Touch({journalPath})
        /\ UNCHANGED <<disk, codieDir, now, res, lastPut, noteLog, nops>>

\* fs.rename(journalPath, rotatedPath) completes: writeMemory of the fresh
\* journal is entered and awaits fs.mkdir; a failure is caught.
ReflectRename(p, faults) ==
    LET dateStamp == dateStampOf(toISOString(calls[p].at))
        journalPath == resolve(pathJoin(codieDir[1], DREAM_JOURNAL_MD))
        rotatedPath ==
            resolve(pathJoin(codieDir[1], DREAM_JOURNAL_DATED \o dateStamp \o DOT_MD))
        renamed(rn) ==
            IF ~rn.ok
            THEN /\ Await(p, [calls[p] EXCEPT !.pc = "reflect.readFile"])
                 /\ disk' = disk
            ELSE /\ Await(p, [calls[p] EXCEPT !.pc = "reflect.freshMkdir", !.moved = TRUE])
                 /\ disk' = rn.disk
    IN  /\ calls[p].pc = "reflect.rename"
        /\ \E f \in faults : renamed(Storage(f, fsRename(disk, journalPath, rotatedPath)))
        /\ Touch({rotatedPath})
        /\ UNCHANGED <<codieDir, now, res, lastPut, noteLog, nops>>

\* fs.mkdir of writeMemory('dream_journal', newJournalHeader + ...) completes.
ReflectFreshMkdir(p, faults) ==
    LET made(m) ==
            IF ~m.ok
            THEN /\ Await(p, [calls[p] EXCEPT !.pc = "reflect.readFile"])
                 /\ disk' = disk
            ELSE /\ Await(p, [calls[p] EXCEPT !.pc = "reflect.freshWriteFile"])
                 /\ disk' = m.disk
    IN  /\ calls[p].pc = "reflect.freshMkdir"
        /\ \E f \in faults :
              made(Storage(f, fsMkdir(disk, dirname(validatePath(DREAM_JOURNAL).fullPath))))
        /\ UNCHANGED <<codieDir, now, res, touched, lastPut, noteLog, nops>>

\* A fresh journal of the header and the pointer line alone.
freshJournal_headerOnly(c) ==
    JOURNAL_ARCHIVED_TO \o dateStampOf(toISOString(c.at)) \o MD_STAR_BLANK

\* newJournalHeader + reflectionContent, as the call of c computes it.
freshJournal(c) ==
    JOURNAL_ARCHIVED_TO \o dateStampOf(toISOString(c.at)) \o MD_STAR_BLANK \o c.text

\* fs.writeFile of the fresh journal completes and the call returns the
\* rotation; a failure is caught.
ReflectFreshWriteFile(p, faults) ==
    LET written(w) ==
            IF ~w.ok
            THEN /\ Await(p, [calls[p] EXCEPT !.pc = "reflect.readFile"])
                 /\ disk' = disk
                 /\ res' = res
            ELSE /\ Return(p, Reply(w.disk,
                        [success |-> TRUE,
                         message |-> calls[p].args.reflection_type \o SAVED_ROTATED
                             \o natToString(roundKB(calls[p].size)) \o KB_CLOSE,
                         rotated |-> TRUE,
                         archived_to |-> DREAM_JOURNAL_DATED
                             \o dateStampOf(toISOString(calls[p].at)) \o DOT_MD],
                        {}))
                 /\ disk' = w.disk
    IN  /\ calls[p].pc = "reflect.freshWriteFile"
        /\ \E f \in faults :
              written(Storage(f, fsWriteFile(disk, validatePath(DREAM_JOURNAL).fullPath,
                                             freshJournal(calls[p]))))
        /\ UNCHANGED <<codieDir, now, touched, lastPut, noteLog, nops>>

\* readMemory('dream_journal').catch(() => '# Dream Journal\n') completes and
\* writeMemory is entered.
ReflectReadFile(p, faults) ==
    LET read(r) ==
            Await(p, [calls[p] EXCEPT !.pc = "reflect.mkdir",
                         !.buf = IF r.ok THEN r.val ELSE JOURNAL_DEFAULT])
    IN  /\ calls[p].pc = "reflect.readFile"
        /\ \E f \in faults :
              read(Storage(f, fsReadFile(disk, validatePath(DREAM_JOURNAL).fullPath)))
        /\ UNCHANGED <<disk, codieDir, now, res, touched, lastPut, noteLog, nops>>

\* fs.mkdir of writeMemory('dream_journal', existingJournal + ...) completes.
ReflectMkdir(p, faults) ==
    LET made(m) ==
            IF ~m.ok
            THEN /\ Return(p, Throw(disk, m.err, {}))
                 /\ disk' = disk
            ELSE /\ Await(p, [calls[p] EXCEPT !.pc = "reflect.writeFile"])
                 /\ disk' = m.disk
                 /\ res' = res
    IN  /\ calls[p].pc = "reflect.mkdir"
        /\ \E f \in faults :
              made(Storage(f, fsMkdir(disk, dirname(validatePath(DREAM_JOURNAL).fullPath))))
        /\ UNCHANGED <<codieDir, now, touched, lastPut, noteLog, nops>>

\* fs.writeFile of existingJournal + reflectionContent completes and the call
\* returns.
ReflectWriteFile(p, faults) ==
    LET written(w) ==
            /\ Return(p, IF ~w.ok THEN Throw(disk, w.err, {})
                         ELSE Reply(w.disk,
                                    [success |-> TRUE,
                                     message |-> calls[p].args.reflection_type
                                         \o SAVED_TO_JOURNAL],
                                    {}))
            /\ disk' = w.disk
    IN  /\ calls[p].pc = "reflect.writeFile"
        /\ \E f \in faults :
              written(Storage(f, fsWriteFile(disk, validatePath(DREAM_JOURNAL).fullPath,
                                             calls[p].buf \o calls[p].text)))
        /\ UNCHANGED <<codieDir, now, touched, lastPut, noteLog, nops>>

\* The steps of the synthesisReflection calls in flight.
ReflectSteps(faults) ==
    \/ \E p \in Callers : ReflectAnchors(p, faults)
    \/ \E p \in Callers : ReflectStat(p, faults)
    \/ \E p \in Callers : ReflectRename(p, faults)
    \/ \E p \in Callers : ReflectFreshMkdir(p, faults)
    \/ \E p \in Callers : ReflectFreshWriteFile(p, faults)
    \/ \E p \in Callers : ReflectReadFile(p, faults)
    \/ \E p \in Callers : ReflectMkdir(p, faults)
    \/ \E p \in Callers : ReflectWriteFile(p, faults)

\* MEMORY_DIR holding a journal of ROTATION_THRESHOLD bytes.
DueJournalDisk ==
    [p \in {SLASH, MEMORY_DIR, MEMORY_DIR \o SLASH \o DREAM_JOURNAL_MD} |->
        IF p = MEMORY_DIR \o SLASH \o DREAM_JOURNAL_MD THEN FileNode(J_AT) ELSE DirNode]

\* Reflections in flight together on a journal that is due for rotation, both
\* environment variables naming MEMORY_DIR and the storage never failing.
InitRotation ==
    /\ disk = DueJournalDisk
    /\ codieDir = Some(MEMORY_DIR)
    /\ now = 0
    /\ res = NoCall
    /\ touched = {}
    /\ lastPut = <<>>
    /\ noteLog = <<>>
    /\ nops = 0
    /\ calls = NoCalls

NextRotation ==
    \/ \E p \in Callers : ReflectBegin(p, {R_DAILY}, {<<T_A>>, <<T_B>>})
    \/ ReflectSteps({FALSE})
    \/ Tick

SpecRotation == InitRotation /\ [][NextRotation]_vars

\* Reflections whose storage operations may each fail, on a journal that is
\* due for rotation or absent.
InitStorageIO ==
    /\ disk \in {RootOnlyDisk, DueJournalDisk}
    /\ codieDir = Some(MEMORY_DIR)
    /\ now = 0
    /\ res = NoCall
    /\ touched = {}
    /\ lastPut = <<>>
    /\ noteLog = <<>>
    /\ nops = 0
    /\ calls = NoCalls

NextStorageIO ==
    \/ \E p \in Callers : ReflectBegin(p, {R_DAILY}, {<<T_A>>})
    \/ ReflectSteps(BOOLEAN)
    \/ Tick

SpecStorageIO == InitStorageIO /\ [][NextStorageIO]_vars

\* A content of 201 characters, one more than ARCHIVE_MIN_LENGTH.
T_LONG == repeat("c", 201)

\* 'session_archives/2026-11-03', the session archive of the first day.
P_ARCHIVE == SESSION_ARCHIVES \o dateStampOf(toISOString(0))

\* Consolidations whose batches may name the documents deepLearn itself
\* maintains (the session, the ledger, the session archive of the day), and
\* notes, in runs of at most MaxOps calls, from an empty MEMORY_DIR or one
\* holding a ledger.
NextDesignated ==
    \/ AddNoteCall({N_INSIGHT}, {Undefined}, {T_N133}, TRUE)
    \/ DeepLearnCall({P_A, CURRENT_SESSION, CONTEXT_ANCHORS, P_ARCHIVE}, {T_LONG}, TRUE)
    \/ Tick

SpecDesignated == InitLearn /\ [][NextDesignated]_vars

(***************************************************************************)
(* Properties.                                                             *)
(***************************************************************************)
\* The physical path of a location.
pathOf(loc) == SLASH \o join(loc, SLASH)

\* The entity path of the last call.
lastPath == res.args.entity_path

Min(a, b) == IF a <= b THEN a ELSE b

\* The elements of a sequence.
Range(q) == {q[i] : i \in 1..Len(q)}

\* The errors of a failed fs.readFile.
ReadErrors == {"ENOENT", "ENOTDIR", "EISDIR"}

\* C1: a writeEntity or readEntity whose path resolves outside MEMORY_DIR fails
\* with the path-escape error and leaves every file and directory as it was.
C1_EscapeRejected ==
    [][(res'.op \in {"writeEntity", "readEntity"} /\ escapes(res'.args.entity_path))
          => (~res'.ok /\ res'.err = "PathEscape" /\ disk' = disk)]_vars

\* A write into the sibling /mx was rejected while entities are stored.
C1_Witness ==
    /\ res.op = "writeEntity" /\ lastPath = P_SIB
    /\ ~res.ok /\ res.err = "PathEscape"
    /\ \E p \in DOMAIN disk : isFile(disk, p)

\* C2: no path outside MEMORY_DIR is ever handed to the storage capability,
\* by any tool, the size check and the rename of the journal rotation included.
C2_Confined ==
    touched = {}

\* C3: a deepLearn whose batch holds an escaping path, at any position, fails
\* with the path-escape error and changes nothing on disk.
C3_BatchEscapeNoEffect ==
    [][(res'.op = "deepLearn" /\ nops' = nops + 1
        /\ \E i \in 1..Len(res'.args.entities) : escapes(res'.args.entities[i].path))
          => (~res'.ok /\ res'.err = "PathEscape" /\ disk' = disk)]_vars

\* C4: a readEntity without selector returns exactly the text of the last
\* successful writeEntity to the location its path names, and every location
\* written so far reads back as the text last written there.
C4_RoundTrip ==
    /\ (res.op = "readEntity" /\ res.ok)
          => /\ locationOf(lastPath) \in DOMAIN lastPut
             /\ res.out.content = lastPut[locationOf(lastPath)]
    /\ \A p \in EntityPaths :
          locationOf(p) \in DOMAIN lastPut
             => LET r == readEntity(disk, [entity_path |-> p] @@ NoSelector)
                IN  r.ok /\ r.out.content = lastPut[locationOf(p)]

\* A multi-line text was read back from a nested path.
C4_Witness ==
    /\ res.op = "readEntity" /\ res.ok /\ lastPath = P_BA
    /\ res.out.content = T_XYZ
    /\ locationOf(P_A) \in DOMAIN lastPut
    /\ lastPut[locationOf(P_A)] = T_EMPTY

\* C5: a readEntity of a path inside MEMORY_DIR at which no file exists fails with
\* the error of the failed read (ENOENT when nothing stands at the location and
\* no file stands above it), returns nothing and leaves the disk as it was.
C5_ReadMissingFails ==
    [][(res'.op = "readEntity" /\ ~escapes(res'.args.entity_path)
        /\ ~isFile(disk, pathOf(locationOf(res'.args.entity_path))))
          => /\ ~res'.ok /\ res'.err \in ReadErrors /\ res'.out = <<>>
             /\ disk' = disk
             /\ (/\ pathOf(locationOf(res'.args.entity_path)) \notin DOMAIN disk
                 /\ ~fileAbove(disk, pathOf(locationOf(res'.args.entity_path))))
                   => res'.err = "ENOENT"]_vars

\* A read of an absent entity failed while other entities are stored.
C5_Witness ==
    /\ res.op = "readEntity" /\ ~res.ok /\ res.err = "ENOENT"
    /\ ~escapes(lastPath)
    /\ \E p \in DOMAIN disk : isFile(disk, p)

\* The stored document read by the last call, its lines, and the response
\* expected for a selection of lines.
storedLines == split(disk[pathOf(locationOf(lastPath))].data, "\n")

returns(lines) ==
    /\ res.out.content = join(lines, <<"\n">>)
    /\ res.out.total_lines = Len(storedLines)
    /\ res.out.returned_lines = Len(lines)

firstLines(h) == SubSeq(storedLines, 1, Min(h, Len(storedLines)))

lastLines(t) ==
    SubSeq(storedLines, Len(storedLines) - Min(t, Len(storedLines)) + 1, Len(storedLines))

headOnly ==
    /\ res.op = "readEntity" /\ res.ok
    /\ isDefined(res.args.head) /\ ~isDefined(res.args.tail)

tailOnly ==
    /\ res.op = "readEntity" /\ res.ok
    /\ isDefined(res.args.tail) /\ ~isDefined(res.args.head)

\* C6: for every h >= 0, head = h returns the first min(h, N) lines,
\* and for every t >= 0, tail = t returns the last min(t, N) lines.
C6_HeadTailNonNegative ==
    /\ headOnly => returns(firstLines(res.args.head[1]))
    /\ tailOnly => returns(lastLines(res.args.tail[1]))

\* For every h >= 1 and t >= 1 the selection is as C6 states it; head = 0 and
\* tail = 0 are taken as no selector.
HeadTailPositive ==
    /\ (headOnly /\ res.args.head[1] >= 1) => returns(firstLines(res.args.head[1]))
    /\ (tailOnly /\ res.args.tail[1] >= 1) => returns(lastLines(res.args.tail[1]))
    /\ (headOnly /\ res.args.head[1] = 0) => returns(storedLines)
    /\ (tailOnly /\ res.args.tail[1] = 0) => returns(storedLines)

\* C7: offset = o and limit = l return the min(l, N - o) lines from 0-based line o
\* (to the end without limit, from line 0 without offset), with total_lines = N
\* and the offset used in the response; o >= N returns no line.
C7_OffsetLimit ==
    (/\ res.op = "readEntity" /\ res.ok
     /\ ~isDefined(res.args.tail) /\ ~isDefined(res.args.head)
     /\ (isDefined(res.args.offset) \/ isDefined(res.args.limit)))
       => LET n == Len(storedLines)
              o == IF isDefined(res.args.offset) THEN res.args.offset[1] ELSE 0
              l == IF isDefined(res.args.limit) THEN res.args.limit[1] ELSE n
              k == IF o >= n THEN 0 ELSE Min(l, n - o)
          IN  /\ returns(SubSeq(storedLines, o + 1, o + k))
              /\ "offset" \in DOMAIN res.out
              /\ res.out.offset = o

\* C8: every successful readEntity has returned_lines <= total_lines, total_lines
\* the line count of the stored document and returned_lines that of the returned
\* content; without selector the whole document is returned.
C8_LineCounts ==
    (res.op = "readEntity" /\ res.ok)
       => /\ res.out.returned_lines <= res.out.total_lines
          /\ res.out.total_lines = Len(storedLines)
          /\ res.out.returned_lines = Len(split(res.out.content, "\n"))
          /\ (~isDefined(res.args.tail) /\ ~isDefined(res.args.head)
              /\ ~isDefined(res.args.offset) /\ ~isDefined(res.args.limit))
                => returns(storedLines)

\* A proper part of a document was returned.
C8_Witness ==
    /\ res.op = "readEntity" /\ res.ok
    /\ res.out.returned_lines < res.out.total_lines

\* The logical paths of the entities on disk: the files below MEMORY_DIR named
\* *.md, relative to MEMORY_DIR and without the extension.
storedEntities ==
    {SubSeq(p, Len(MEMORY_DIR) + 2, Len(p) - Len(DOT_MD)) :
        p \in {q \in DOMAIN disk : /\ isFile(disk, q)
                                   /\ startsWith(q, MEMORY_DIR \o SLASH)
                                   /\ endsWith(q, DOT_MD)}}

\* C9: listEntities returns each logical path of an entity on disk exactly once,
\* restricted to those starting with the prefix when one is given.
C9_ListExact ==
    res.op = "listEntities"
       => LET prefix == IF isDefined(res.args.filter_prefix)
                        THEN res.args.filter_prefix[1] ELSE <<>>
              wanted == {e \in storedEntities : startsWith(e, prefix)}
          IN  /\ res.ok
              /\ Range(res.out) = wanted
              /\ Len(res.out) = Cardinality(wanted)

U_CONTEXT ==
    <<"C", "O", "N", "T", "E", "X", "T">>
U_INSIGHT ==
    <<"I", "N", "S", "I", "G", "H", "T">>
U_DECISION ==
    <<"D", "E", "C", "I", "S", "I", "O", "N">>
U_MEDIUM ==
    <<"M", "E", "D", "I", "U", "M">>
U_HIGH ==
    <<"H", "I", "G", "H">>
U_LOW ==
    <<"L", "O", "W">>

upperOf(word) ==
    CASE word = N_CONTEXT -> U_CONTEXT
      [] word = N_INSIGHT -> U_INSIGHT
      [] word = N_DECISION -> U_DECISION
      [] word = MEDIUM -> U_MEDIUM
      [] word = I_HIGH -> U_HIGH
      [] word = I_LOW -> U_LOW

\* The block of one logged note.
blockOf(e) ==
    <<"\n", "#", "#", "#", " ">> \o upperOf(e.args.note_type) \o <<" ", "-", " ">>
        \o upperOf(IF isDefined(e.args.importance) THEN e.args.importance[1] ELSE MEDIUM)
        \o <<" ", "(">> \o toISOString(e.at) \o <<")", "\n">> \o e.args.content \o <<"\n">>

RECURSIVE blocksOf(_)
blocksOf(log) ==
    IF Len(log) = 0 THEN <<>> ELSE blockOf(Head(log)) \o blocksOf(Tail(log))

\* C10: starting without session document, after addSessionNote calls alone the
\* document is the header followed by one block per call, in call order, each
\* with the upper-cased type and importance (MEDIUM by default), the instant
\* of the call and the content.
C10_SessionLog ==
    IF noteLog = <<>>
    THEN pathOf(locationOf(CURRENT_SESSION)) \notin DOMAIN disk
    ELSE /\ isFile(disk, pathOf(locationOf(CURRENT_SESSION)))
         /\ disk[pathOf(locationOf(CURRENT_SESSION))].data
               = SESSION_DEFAULT \o blocksOf(noteLog)

\* Two notes of different types, the first with the default importance, the
\* second on a later instant.
C10_Witness ==
    /\ Len(noteLog) = 2
    /\ noteLog[1].args.importance = Undefined
    /\ noteLog[1].args.note_type # noteLog[2].args.note_type
    /\ noteLog[1].at < noteLog[2].at

\* The documents of deepLearn and what a step does to them.
sessionFile == pathOf(locationOf(CURRENT_SESSION))
ledgerFile == pathOf(locationOf(CONTEXT_ANCHORS))
archiveDir == MEMORY_DIR \o SLASH \o <<"s", "e", "s", "s", "i", "o", "n", "_", "a", "r", "c", "h", "i", "v", "e", "s">>

same(p) == (p \in DOMAIN disk <=> p \in DOMAIN disk') /\ (p \in DOMAIN disk => disk'[p] = disk[p])

archivesSame ==
    \A p \in DOMAIN disk \cup DOMAIN disk' : startsWith(p, archiveDir) => same(p)

learnStep == res'.op = "deepLearn" /\ nops' = nops + 1

\* Every entity of the batch is stored in d with the content of its last
\* occurrence in the batch.
storedBatch(batch, d) ==
    \A i \in 1..Len(batch) :
        LET loc == locationOf(batch[i].path)
            last == CHOOSE j \in i..Len(batch) :
                        /\ locationOf(batch[j].path) = loc
                        /\ \A k \in (j + 1)..Len(batch) : locationOf(batch[k].path) # loc
        IN  isFile(d, pathOf(loc)) /\ d[pathOf(loc)].data = batch[last].content

\* C11: a successful deepLearn reports success, the paths of the batch in input
\* order, session_reset and context_anchors_updated, and in any deepLearn that
\* touches the ledger, the session or an archive every entity of the batch is stored.
C11_BatchWrittenFirst ==
    [][learnStep =>
          /\ res'.ok =>
                /\ res'.out.success
                /\ res'.out.entities_created =
                      [i \in 1..Len(res'.args.entities) |-> res'.args.entities[i].path]
                /\ res'.out.session_reset
                /\ res'.out.context_anchors_updated
                /\ storedBatch(res'.args.entities, disk')
          /\ (~same(ledgerFile) \/ ~same(sessionFile) \/ ~archivesSame)
                => storedBatch(res'.args.entities, disk')]_vars

\* A batch of two nested entities was consolidated.
C11_Witness ==
    /\ res.op = "deepLearn" /\ res.ok
    /\ res.out.entities_created = <<P_COL, P_BA>>
    /\ isFile(disk, ledgerFile) /\ isFile(disk, sessionFile)

\* The text of a file of d, and the number of occurrences of a pattern in a text.
textOf(d, p) == d[p].data

countOf(s, pat) ==
    Cardinality({i \in 1..(Len(s) - Len(pat) + 1) : SubSeq(s, i, i + Len(pat) - 1) = pat})

\* '# Context Anchors\n\n'
E_LEDGER_HEADER ==
    <<"#", " ", "C", "o", "n", "t", "e", "x", "t", " ", "A", "n", "c", "h", "o", "r",
      "s", "\n", "\n">>
\* '\n## Deep Learn Session - '
E_ENTRY_OPEN ==
    <<"\n", "#", "#", " ", "D", "e", "e", "p", " ", "L", "e", "a", "r", "n", " ", "S",
      "e", "s", "s", "i", "o", "n", " ", "-", " ">>
\* '\n\n---\n\n'
E_ENTRY_CLOSE ==
    <<"\n", "\n", "-", "-", "-", "\n", "\n">>

\* The lines '- **path**: summary' of a batch, each after a line feed.
RECURSIVE entryLines(_)
entryLines(batch) ==
    IF Len(batch) = 0 THEN <<>>
    ELSE <<"\n", "-", " ", "*", "*">> \o Head(batch).path \o <<"*", "*", ":", " ">>
             \o Head(batch).anchor_summary \o entryLines(Tail(batch))

\* The ledger entry of a batch consolidated at instant t.
entryOf(t, batch) ==
    E_ENTRY_OPEN \o toISOString(t) \o entryLines(batch) \o E_ENTRY_CLOSE

E_ARCHIVES ==
    <<"s", "e", "s", "s", "i", "o", "n", "_", "a", "r", "c", "h", "i", "v", "e", "s",
      "/">>

\* The date of instant t, 'YYYY-MM-DD'.
dateOf(t) == SubSeq(toISOString(t), 1, 10)

\* A session text holds a note when it has a '\n### ' block opening.
hasNote(text) == countOf(text, <<"\n", "#", "#", "#", " ">>) > 0

\* The session before a step holds more than its header.
sessionInUse == isFile(disk, sessionFile) /\ hasNote(textOf(disk, sessionFile))

\* C13: a successful deepLearn archives the session, to session_archives/<date>
\* with the full text it had, whenever the session exists and holds a note, and
\* archives nothing when the session is absent or holds its header alone.
C13_ArchivedWhenInUse ==
    [][(learnStep /\ res'.ok)
          => IF sessionInUse
             THEN /\ res'.out.session_archived
                  /\ res'.out.archive_path = Some(E_ARCHIVES \o dateOf(now))
                  /\ LET r == readEntity(disk', [entity_path |-> E_ARCHIVES \o dateOf(now)]
                                                    @@ NoSelector)
                     IN  r.ok /\ r.out.content = textOf(disk, sessionFile)
             ELSE /\ ~res'.out.session_archived
                  /\ res'.out.archive_path = Undefined
                  /\ archivesSame]_vars

\* The session is archived exactly when it is longer than ARCHIVE_MIN_LENGTH
\* characters, whatever it holds.
ArchivedWhenLong ==
    [][(learnStep /\ res'.ok)
          => IF isFile(disk, sessionFile) /\ byteLength(textOf(disk, sessionFile)) > ARCHIVE_MIN_LENGTH
             THEN /\ res'.out.session_archived
                  /\ res'.out.archive_path = Some(E_ARCHIVES \o dateOf(now))
                  /\ isFile(disk', pathOf(locationOf(E_ARCHIVES \o dateOf(now))))
                  /\ textOf(disk', pathOf(locationOf(E_ARCHIVES \o dateOf(now))))
                        = textOf(disk, sessionFile)
             ELSE /\ ~res'.out.session_archived
                  /\ res'.out.archive_path = Undefined
                  /\ archivesSame]_vars

\* '# Current Session\n\n*Session reset on '
E_RESET_ON ==
    <<"#", " ", "C", "u", "r", "r", "e", "n", "t", " ", "S", "e", "s", "s", "i", "o",
      "n", "\n", "\n", "*", "S", "e", "s", "s", "i", "o", "n", " ", "r", "e", "s", "e",
      "t", " ", "o", "n", " ">>

\* ' after Deep Learn integration*\n*Previous session content integrated into structured entities*\n'
E_RESET_AFTER ==
    <<" ", "a", "f", "t", "e", "r", " ", "D", "e", "e", "p", " ", "L", "e", "a", "r",
      "n", " ", "i", "n", "t", "e", "g", "r", "a", "t", "i", "o", "n", "*", "\n", "*",
      "P", "r", "e", "v", "i", "o", "u", "s", " ", "s", "e", "s", "s", "i", "o", "n",
      " ", "c", "o", "n", "t", "e", "n", "t", " ", "i", "n", "t", "e", "g", "r", "a",
      "t", "e", "d", " ", "i", "n", "t", "o", " ", "s", "t", "r", "u", "c", "t", "u",
      "r", "e", "d", " ", "e", "n", "t", "i", "t", "i", "e", "s", "*", "\n">>

\* '*Session archived to: '
E_ARCHIVED_TO ==
    <<"*", "S", "e", "s", "s", "i", "o", "n", " ", "a", "r", "c", "h", "i", "v", "e",
      "d", " ", "t", "o", ":", " ">>

\* '.md*'
E_MD_STAR ==
    <<".", "m", "d", "*">>

\* The reset template of instant t, naming the day's archive or not.
resetTemplate(t, named) ==
    E_RESET_ON \o dateOf(t) \o E_RESET_AFTER
        \o (IF named THEN E_ARCHIVED_TO \o E_ARCHIVES \o dateOf(t) \o E_MD_STAR ELSE <<>>)
        \o <<"\n", "\n">>

\* C14: after a successful deepLearn the session document is the reset template
\* of the current date, holds no note of the session before, and names the
\* archive path exactly when the call archived the session.
C14_SessionReset ==
    [][(learnStep /\ res'.ok)
          => /\ isFile(disk', sessionFile)
             /\ textOf(disk', sessionFile) = resetTemplate(now, res'.out.session_archived)
             /\ ~hasNote(textOf(disk', sessionFile))
             /\ (countOf(textOf(disk', sessionFile), E_ARCHIVES) > 0)
                    <=> res'.out.session_archived]_vars

\* A deepLearn has archived a session holding notes and reset it to the
\* template naming the archive.
C14_Witness ==
    /\ res.op = "deepLearn" /\ res.ok /\ res.out.session_archived
    /\ noteLog # <<>>
    /\ isFile(disk, sessionFile)
    /\ countOf(textOf(disk, sessionFile), E_ARCHIVES) = 1

reflectStep == res'.op = "synthesisReflection" /\ nops' = nops + 1

journalFile == pathOf(locationOf(DREAM_JOURNAL))

\* 'dream_journal_'
E_JOURNAL_DATED ==
    <<"d", "r", "e", "a", "m", "_", "j", "o", "u", "r", "n", "a", "l", "_">>

\* The journal archive of the day of instant t, as an entity and as a file.
archiveEntity(t) == E_JOURNAL_DATED \o dateOf(t)
archiveFile(t) == pathOf(locationOf(archiveEntity(t)))

\* The files of MEMORY_DIR named dream_journal_..., before or after a step.
journalArchives ==
    {p \in DOMAIN disk \cup DOMAIN disk' :
        startsWith(p, MEMORY_DIR \o SLASH \o E_JOURNAL_DATED)}

\* The journal before a step exists with at least 1048576 bytes.
journalDue ==
    isFile(disk, journalFile) /\ byteLength(textOf(disk, journalFile)) >= 1048576

\* A reply that reports a rotation.
reportsRotation(r) == r.ok /\ "rotated" \in DOMAIN r.out /\ r.out.rotated

\* A reflection rotates, and says so, exactly when the journal is due; when it
\* is not due no journal archive appears or changes.
rotationRule ==
    /\ reportsRotation(res') <=> journalDue
    /\ journalDue
          => /\ isFile(disk', archiveFile(now))
             /\ textOf(disk', archiveFile(now)) = textOf(disk, journalFile)
    /\ ~journalDue => \A p \in journalArchives : same(p)

\* C17: synthesisReflection rotates the journal and reports rotated = true if
\* and only if the journal exists with a size of at least 1048576 bytes;
\* otherwise no journal archive is created or changed and no rotation is reported.
C17_RotatesAtThreshold == [][reflectStep => rotationRule]_vars

\* The rule holds of the calls made with CODIE_MEMORY_PATH naming MEMORY_DIR.
RotatesAtThresholdSameDir ==
    [][(reflectStep /\ codieDir = Some(MEMORY_DIR)) => rotationRule]_vars

\* '# Dream Journal\n\n*Previous journal archived to: '
E_JOURNAL_POINTER ==
    <<"#", " ", "D", "r", "e", "a", "m", " ", "J", "o", "u", "r", "n", "a", "l", "\n",
      "\n", "*", "P", "r", "e", "v", "i", "o", "u", "s", " ", "j", "o", "u", "r", "n",
      "a", "l", " ", "a", "r", "c", "h", "i", "v", "e", "d", " ", "t", "o", ":", " ">>

\* '.md*\n\n'
E_POINTER_CLOSE ==
    <<".", "m", "d", "*", "\n", "\n">>

\* '\n# Daily Reflection - '
E_DAILY_REFLECTION ==
    <<"\n", "#", " ", "D", "a", "i", "l", "y", " ", "R", "e", "f", "l", "e", "c", "t",
      "i", "o", "n", " ", "-", " ">>

\* '\n\n## Key Insights\n- '
E_KEY_INSIGHTS ==
    <<"\n", "\n", "#", "#", " ", "K", "e", "y", " ", "I", "n", "s", "i", "g", "h", "t",
      "s", "\n", "-", " ">>

\* '\n\n\n\n\n\n---\n*Generated via Dream Tool for meta-cognitive development*\n\n'
E_GENERATED ==
    <<"\n", "\n", "\n", "\n", "\n", "\n", "-", "-", "-", "\n", "*", "G", "e", "n", "e",
      "r", "a", "t", "e", "d", " ", "v", "i", "a", " ", "D", "r", "e", "a", "m", " ",
      "T", "o", "o", "l", " ", "f", "o", "r", " ", "m", "e", "t", "a", "-", "c", "o",
      "g", "n", "i", "t", "i", "v", "e", " ", "d", "e", "v", "e", "l", "o", "p", "m",
      "e", "n", "t", "*", "\n", "\n">>

\* The block of a daily reflection made at instant t with the one insight ki
\* and no growth or focus text, without ledger context.
reflectionBlock(t, ki) ==
    E_DAILY_REFLECTION \o toISOString(t) \o E_KEY_INSIGHTS \o ki \o E_GENERATED

\* The journal header and the line pointing at the archive of instant t.
freshHeader(t) == E_JOURNAL_POINTER \o archiveEntity(t) \o E_POINTER_CLOSE

\* After a reported rotation the archive of the day holds the journal as it
\* was and the journal is header, pointer line and the new block.
rotationResult ==
    /\ isFile(disk, journalFile)
    /\ isFile(disk', archiveFile(now))
    /\ textOf(disk', archiveFile(now)) = textOf(disk, journalFile)
    /\ isFile(disk', journalFile)
    /\ textOf(disk', journalFile)
          = freshHeader(now) \o reflectionBlock(now, res'.args.key_insights[1])

\* C18: when synthesisReflection rotates, the dated archive holds exactly the
\* journal content from before the call, and the new journal is the journal
\* header, one line naming that archive and the new reflection block.
C18_RotationResult ==
    [][(reflectStep /\ reportsRotation(res')) => rotationResult]_vars

\* The same, of the calls made with CODIE_MEMORY_PATH naming MEMORY_DIR.
RotationResultSameDir ==
    [][(reflectStep /\ reportsRotation(res') /\ codieDir = Some(MEMORY_DIR))
          => rotationResult]_vars

\* The file whose size the rotation step looked at, and its size before the step.
rotatedSource == resolve(pathJoin(codieDir[1], DREAM_JOURNAL_MD))
sizeBefore == byteLength(textOf(disk, rotatedSource))
sizeAfter == byteLength(textOf(disk', journalFile))
blockSize == byteLength(reflectionBlock(now, res'.args.key_insights[1]))

\* C19: whenever synthesisReflection rotates, the fresh journal is strictly
\* smaller than the journal was before the rotation, whatever the reflection.
C19_FreshJournalSmaller ==
    [][(reflectStep /\ reportsRotation(res')) => sizeAfter < sizeBefore]_vars

\* C19, amended: whenever synthesisReflection rotates, the fresh journal is the
\* header and pointer line followed by the reflection block, and it is strictly
\* smaller than the journal was before the rotation when the block has fewer
\* than 1048576 bytes less the length of header and pointer line.
C19_FreshJournalSize ==
    [][(reflectStep /\ reportsRotation(res'))
          => /\ sizeAfter = byteLength(freshHeader(now)) + blockSize
             /\ sizeBefore >= 1048576
             /\ (blockSize < 1048576 - byteLength(freshHeader(now)))
                   => sizeAfter < sizeBefore]_vars

\* A journal of exactly 1048576 bytes was rotated by a reflection with a short
\* insight: the fresh journal is smaller than the archive.
C19_Witness ==
    /\ res.op = "synthesisReflection" /\ reportsRotation(res)
    /\ res.args.key_insights = <<T_A>>
    /\ codieDir = Some(MEMORY_DIR)
    /\ isFile(disk, archiveFile(now)) /\ isFile(disk, journalFile)
    /\ byteLength(textOf(disk, archiveFile(now))) = 1048576
    /\ byteLength(textOf(disk, journalFile)) < 1048576

\* Reading the entity e after a step returns the text that was rotated, and
\* the listing after the step names e.
readsAsArchive(e) ==
    LET r == readEntity(disk', [entity_path |-> e] @@ NoSelector)
        l == listEntities(disk', [filter_prefix |-> Undefined])
    IN  /\ r.ok /\ r.out.content = textOf(disk, rotatedSource)
        /\ l.ok /\ e \in Range(l.out)

\* C20: when synthesisReflection reports a rotation, archived_to is the logical
\* path of the archive: readEntity of it returns the journal content from
\* before the rotation, and listEntities lists it.
C20_ArchivedToIsLogicalPath ==
    [][(reflectStep /\ reportsRotation(res')) => readsAsArchive(res'.out.archived_to)]_vars

\* archived_to is the file name of the archive; the entity of that name less
\* its '.md' is the archive when CODIE_MEMORY_PATH names MEMORY_DIR.
ArchivedToIsFileName ==
    [][(reflectStep /\ reportsRotation(res'))
          => /\ res'.out.archived_to = archiveEntity(now) \o <<".", "m", "d">>
             /\ codieDir = Some(MEMORY_DIR) => readsAsArchive(archiveEntity(now))]_vars

\* '# Dream Journal\n'
E_JOURNAL_HEADER ==
    <<"#", " ", "D", "r", "e", "a", "m", " ", "J", "o", "u", "r", "n", "a", "l", "\n">>

\* The journal before a step, or the journal header when there is none.
journalBefore ==
    IF isFile(disk, journalFile) THEN textOf(disk, journalFile) ELSE E_JOURNAL_HEADER

instructStep == res'.op = "learn" /\ nops' = nops + 1

meFile == pathOf(locationOf(ME))

\* '# Base Instructions (me.md)\n\n*This file contains behavioral learnings that have been integrated into the base prompt.*\n*Interface files (CLAUDE.md, custom_modes.yaml, etc.) should reference this location.*\n\n'
E_PREAMBLE ==
    <<"#", " ", "B", "a", "s", "e", " ", "I", "n", "s", "t", "r", "u", "c", "t", "i",
      "o", "n", "s", " ", "(", "m", "e", ".", "m", "d", ")", "\n", "\n", "*", "T", "h",
      "i", "s", " ", "f", "i", "l", "e", " ", "c", "o", "n", "t", "a", "i", "n", "s",
      " ", "b", "e", "h", "a", "v", "i", "o", "r", "a", "l", " ", "l", "e", "a", "r",
      "n", "i", "n", "g", "s", " ", "t", "h", "a", "t", " ", "h", "a", "v", "e", " ",
      "b", "e", "e", "n", " ", "i", "n", "t", "e", "g", "r", "a", "t", "e", "d", " ",
      "i", "n", "t", "o", " ", "t", "h", "e", " ", "b", "a", "s", "e", " ", "p", "r",
      "o", "m", "p", "t", ".", "*", "\n", "*", "I", "n", "t", "e", "r", "f", "a", "c",
      "e", " ", "f", "i", "l", "e", "s", " ", "(", "C", "L", "A", "U", "D", "E", ".",
      "m", "d", ",", " ", "c", "u", "s", "t", "o", "m", "_", "m", "o", "d", "e", "s",
      ".", "y", "a", "m", "l", ",", " ", "e", "t", "c", ".", ")", " ", "s", "h", "o",
      "u", "l", "d", " ", "r", "e", "f", "e", "r", "e", "n", "c", "e", " ", "t", "h",
      "i", "s", " ", "l", "o", "c", "a", "t", "i", "o", "n", ".", "*", "\n", "\n">>
\* 'Behavioral Learnings'
E_DEFAULT_SECTION ==
    <<"B", "e", "h", "a", "v", "i", "o", "r", "a", "l", " ", "L", "e", "a", "r", "n",
      "i", "n", "g", "s">>
\* '### '
E_SECTION_HEADER ==
    <<"#", "#", "#", " ">>
\* ' - Updated '
E_UPDATED ==
    <<" ", "-", " ", "U", "p", "d", "a", "t", "e", "d", " ">>
\* '\n\n**Rationale**: '
E_RATIONALE ==
    <<"\n", "\n", "*", "*", "R", "a", "t", "i", "o", "n", "a", "l", "e", "*", "*", ":",
      " ">>
\* '\n\n---\n\n'
E_BLOCK_CLOSE ==
    <<"\n", "\n", "-", "-", "-", "\n", "\n">>

\* The section a learn call names, 'Behavioral Learnings' when it names none.
sectionOf(args) == IF args.section = Undefined THEN E_DEFAULT_SECTION ELSE args.section[1]

\* The section block of a learn call made at instant t.
sectionBlock(args, t) ==
    <<"\n">> \o E_SECTION_HEADER \o sectionOf(args) \o E_UPDATED \o dateOf(t)
        \o E_RATIONALE \o args.rationale \o <<"\n", "\n">> \o args.content
        \o E_BLOCK_CLOSE

\* The action is 'created' exactly when there was no instructions document,
\* and the document created is the preamble and the one block.
createdRule ==
    /\ res'.out.action = "created" <=> ~isFile(disk, meFile)
    /\ res'.out.action = "created"
          => /\ isFile(disk', meFile)
             /\ textOf(disk', meFile) = E_PREAMBLE \o sectionBlock(res'.args, now)

\* C22: learn returns action 'created' if and only if the instructions
\* document did not exist before the call, whatever the section name, body and
\* rationale; the document created is the standard preamble followed by exactly
\* one section block, and an existing document is never replaced by such a one.
C22_CreatedIffAbsent == [][(instructStep /\ res'.ok) => createdRule]_vars

\* The rule holds of the calls whose section name compiles as a pattern.
CreatedIffAbsentCompiling ==
    [][(instructStep /\ res'.ok /\ ~regExpThrows(sectionOf(res'.args))) => createdRule]_vars

\* A learn call follows a learn call for the same section, both successful.
sameSectionAgain ==
    /\ instructStep /\ res'.ok
    /\ res.op = "learn" /\ res.ok
    /\ sectionOf(res.args) = sectionOf(res'.args)

\* The block nb stands in the document after the step where the block fb
\* stood before it: what precedes nb is text that preceded the body of fb,
\* what follows nb is text that followed the body of fb.
standsFor(nb, fb) ==
    LET old == textOf(disk, meFile)
        new == textOf(disk', meFile)
        p == indexOf(old, fb)
        q == indexOf(new, nb)
        lead == SubSeq(new, 1, q - 1)
        rest == SubSeq(new, q + Len(nb), Len(new))
    IN  /\ p > 0 /\ q > 0
        /\ Len(lead) <= p /\ startsWith(old, lead)
        /\ Len(rest) <= Len(old) - (p + Len(fb) - Len(E_BLOCK_CLOSE)) + 1
        /\ endsWith(old, rest)

\* After the second of two calls for a section the document has one block for
\* it, the second call's, in the place of the first call's.
replacedRule ==
    /\ res'.out.action = "replaced"
    /\ isFile(disk, meFile) /\ isFile(disk', meFile)
    /\ countOf(textOf(disk', meFile),
               E_SECTION_HEADER \o sectionOf(res'.args) \o E_UPDATED) = 1
    /\ countOf(textOf(disk', meFile), sectionBlock(res'.args, now)) = 1
    /\ \E t \in 0..now : standsFor(sectionBlock(res'.args, now), sectionBlock(res.args, t))

\* C23: two learn calls with the same section name, whatever their bodies and
\* rationales, leave exactly one block for the section; the second call
\* returns 'replaced' and the block holds its rationale and body, with nothing
\* of the first call's body left.
C23_SecondCallReplaces == [][sameSectionAgain => replacedRule]_vars

\* The rule holds when the section name compiles as a pattern and neither body
\* holds a line feed followed by '##' or '---' nor a '$'.
SecondCallReplacesPlain ==
    [][(sameSectionAgain /\ ~regExpThrows(sectionOf(res'.args))
        /\ res.args.content = T_X /\ res'.args.content = T_X) => replacedRule]_vars

\* '\n---\n'
E_DELIMITER ==
    <<"\n", "-", "-", "-", "\n">>

\* '\n##'
E_HEADING ==
    <<"\n", "#", "#">>

\* Where the block of section sec starts in text: at its header.
blockStart(text, sec) == indexOf(text, E_SECTION_HEADER \o sec)

\* Where the block ends: at the first delimiter or heading after the header,
\* or at the end of the text.
blockStop(text, sec) ==
    LET from == blockStart(text, sec) + Len(E_SECTION_HEADER \o sec)
        stops == {k \in from..(Len(text) + 1) :
                    \/ k = Len(text) + 1
                    \/ k + 4 <= Len(text) /\ SubSeq(text, k, k + 4) = E_DELIMITER
                    \/ k + 2 <= Len(text) /\ SubSeq(text, k, k + 2) = E_HEADING}
    IN  CHOOSE k \in stops : \A j \in stops : k <= j

\* The block of sec ends at a heading, the header of the block that follows.
stopsAtHeading(text, sec) ==
    LET k == blockStop(text, sec)
    IN  k + 2 <= Len(text) /\ SubSeq(text, k, k + 2) = E_HEADING

\* The text that follows the block of sec: from the heading that ends it, or
\* past the delimiter that ends it.
afterBlock(text, sec) ==
    LET k == blockStop(text, sec)
    IN  IF stopsAtHeading(text, sec) THEN SubSeq(text, k, Len(text))
        ELSE SubSeq(text, k + Len(E_DELIMITER), Len(text))

\* A successful learn call that replaces.
replaceStep == instructStep /\ res'.ok /\ res'.out.action = "replaced"

\* The text before the header of the section's block and the text after the
\* block are the two ends of the document after the step.
frameRule ==
    LET old == textOf(disk, meFile)
        new == textOf(disk', meFile)
        sec == sectionOf(res'.args)
        lead == SubSeq(old, 1, blockStart(old, sec) - 1)
        rest == afterBlock(old, sec)
    IN  /\ blockStart(old, sec) > 0
        /\ startsWith(new, lead)
        /\ endsWith(new, rest)
        /\ Len(lead) + Len(rest) <= Len(new)

\* C24: when learn replaces a section only the block of that section changes:
\* the text before its header and the text from its end onward, the header
\* line of the following section included, are the same after the call.
C24_OnlyBlockChanges == [][replaceStep => frameRule]_vars

\* The rule holds when the block replaced ends at a delimiter or at the end
\* of the document.
OnlyBlockChangesDelimited ==
    [][(replaceStep /\ ~stopsAtHeading(textOf(disk, meFile), sectionOf(res'.args)))
          => frameRule]_vars

\* Some line of text is a header naming exactly sec: '### sec' at the start of
\* a line, followed by the end of the line or by ' - Updated '.
namesExactly(text, sec) ==
    LET head == E_SECTION_HEADER \o sec
    IN  \E i \in 1..(Len(text) - Len(head) + 1) :
            /\ SubSeq(text, i, i + Len(head) - 1) = head
            /\ i = 1 \/ text[i - 1] = "\n"
            /\ LET tail == SubSeq(text, i + Len(head), Len(text))
               IN  tail = <<>> \/ tail[1] = "\n" \/ startsWith(tail, E_UPDATED)

\* The call appends its block to the document as it was and says so.
appendedRule ==
    /\ res'.out.action = "appended"
    /\ isFile(disk', meFile)
    /\ textOf(disk', meFile) = textOf(disk, meFile) \o sectionBlock(res'.args, now)

\* C25: when the instructions document exists and none of its headers names
\* exactly the section asked for, learn appends a new block at the end, keeps
\* the previous document as a prefix and returns 'appended'; a section whose
\* name only begins with the one asked for does not count.
C25_AppendsNewSection ==
    [][(instructStep /\ res'.ok /\ isFile(disk, meFile)
        /\ ~namesExactly(textOf(disk, meFile), sectionOf(res'.args)))
          => appendedRule]_vars

\* The rule holds when '### <section>' occurs nowhere in the document and the
\* section name compiles as a pattern.
AppendsUnseenSection ==
    [][(instructStep /\ res'.ok /\ isFile(disk, meFile)
        /\ blockStart(textOf(disk, meFile), sectionOf(res'.args)) = 0
        /\ ~regExpThrows(sectionOf(res'.args)))
          => appendedRule]_vars

\* The archive files of a file system: the files under session_archives/ and
\* the dated journal archives.
archiveFiles(d) ==
    {p \in DOMAIN d :
        /\ isFile(d, p)
        /\ \/ startsWith(p, archiveDir \o SLASH)
           \/ startsWith(p, MEMORY_DIR \o SLASH \o E_JOURNAL_DATED)}

\* C26: archives are write-once: no step changes or removes an archive that
\* exists, be it a session archive of deepLearn or a journal archive of a rotation.
C26_ArchivesWriteOnce ==
    [][\A p \in archiveFiles(disk) : same(p)]_vars

\* C27: the session document changes only by addSessionNote and deepLearn: a
\* step of any other tool, whatever its arguments, leaves it as it was.
C27_SessionFrame ==
    [][(nops' = nops + 1 /\ res'.op \notin {"addSessionNote", "deepLearn"})
          => same(sessionFile)]_vars

\* The steps of readEntity, listEntities, synthesisReflection and learn leave
\* the session document as it was.
SessionFrameOtherTools ==
    [][(nops' = nops + 1 /\ res'.op \notin {"addSessionNote", "deepLearn", "writeEntity"})
          => same(sessionFile)]_vars

\* The files of the entities of a file system: the '.md' files under MEMORY_DIR.
entityFiles(d) ==
    {p \in DOMAIN d :
        isFile(d, p) /\ startsWith(p, MEMORY_DIR \o SLASH) /\ endsWith(p, DOT_MD)}

\* C28: no tool deletes an entity: after every successful call each entity
\* that existed before it still exists, the journal a rotation renamed included.
C28_NoEntityDeleted ==
    [][(nops' = nops + 1 /\ res'.ok) => entityFiles(disk) \subseteq entityFiles(disk')]_vars

\* The same, of the calls made with CODIE_MEMORY_PATH naming MEMORY_DIR.
NoEntityDeletedSameDir ==
    [][(nops' = nops + 1 /\ res'.ok /\ codieDir = Some(MEMORY_DIR))
          => entityFiles(disk) \subseteq entityFiles(disk')]_vars

\* '\n## Context from Anchors\n'
E_CONTEXT_SECTION ==
    <<"\n", "#", "#", " ", "C", "o", "n", "t", "e", "x", "t", " ", "f", "r", "o", "m",
      " ", "A", "n", "c", "h", "o", "r", "s", "\n">>
\* 'Active entities: '
E_ACTIVE ==
    <<"A", "c", "t", "i", "v", "e", " ", "e", "n", "t", "i", "t", "i", "e", "s", ":",
      " ">>
\* ' referenced\n'
E_REFERENCED ==
    <<" ", "r", "e", "f", "e", "r", "e", "n", "c", "e", "d", "\n">>
\* '**Entity Path**: '
E_ENTITY_PATH ==
    <<"*", "*", "E", "n", "t", "i", "t", "y", " ", "P", "a", "t", "h", "*", "*", ":",
      " ">>

\* A successful synthesisReflection step of a run.
reflected == reflectStep /\ res'.ok

\* The number of batch entries of the ledger before a step.
ledgerEntries == countOf(textOf(disk, ledgerFile), E_ENTRY_OPEN)

\* How many more times the journal holds text after a step than the journal it
\* was built on: the number of times the new reflection block holds it.
inNewBlock(text) ==
    countOf(textOf(disk', journalFile), text)
        - (IF reportsRotation(res') THEN 0 ELSE countOf(journalBefore, text))

\* C30: when the ledger holds at least one batch entry, as after a deepLearn,
\* the block of a following synthesisReflection has the context section with
\* the number of entries; when the ledger is absent the call succeeds and the
\* block has no context section.
C30_LedgerContext ==
    [][reflectStep
          => /\ (isFile(disk, ledgerFile) /\ ledgerEntries >= 1)
                   => /\ res'.ok
                      /\ inNewBlock(E_CONTEXT_SECTION \o E_ACTIVE
                                       \o natToString(ledgerEntries) \o E_REFERENCED) = 1
             /\ ~isFile(disk, ledgerFile)
                   => /\ res'.ok
                      /\ inNewBlock(E_CONTEXT_SECTION) = 0]_vars

\* A ledger without the mark '**Entity Path**: ' gives no context section,
\* batch entries or not, and an absent ledger does not fail the call.
NoContextWithoutMark ==
    [][reflectStep
          => /\ res'.ok
             /\ (isFile(disk, ledgerFile)
                   => countOf(textOf(disk, ledgerFile), E_ENTITY_PATH) = 0)
                   => inNewBlock(E_CONTEXT_SECTION) = 0]_vars

\* The tools and the shared document each of them reads and rewrites.
rewrites ==
    {<<"addSessionNote", sessionFile>>, <<"deepLearn", ledgerFile>>,
     <<"deepLearn", sessionFile>>, <<"learn", meFile>>,
     <<"synthesisReflection", journalFile>>}

\* The file p exists and reading it fails with EACCES.
unreadable(d, p) == isFile(d, p) /\ ~fsReadFile(d, p).ok

\* C29: a shared document that exists but cannot be read is not taken for an
\* absent one: the tool that uses it fails with the storage error and leaves
\* the document as it was.
C29_FailedIsNotAbsent ==
    [][\A u \in rewrites :
          (nops' = nops + 1 /\ res'.op = u[1] /\ unreadable(disk, u[2]))
             => /\ ~res'.ok
                /\ res'.err = fsReadFile(disk, u[2]).err
                /\ same(u[2])]_vars

\* What the tools do instead: the call succeeds, and the document is written
\* without any text of the unread one.
UnreadableTakenForAbsent ==
    [][\A u \in rewrites :
          (nops' = nops + 1 /\ res'.op = u[1] /\ unreadable(disk, u[2]))
             => /\ res'.ok
                /\ ~same(u[2]) \/ nops > 0]_vars

\* The steps of a call in flight.
noteReads(p) == calls[p].pc = "note.readFile" /\ calls'[p].pc = "note.mkdir"
noteWrites(p) == calls[p].pc = "note.writeFile" /\ calls'[p].pc = "returned" /\ res'.ok

sessionText(d) == IF isFile(d, sessionFile) THEN d[sessionFile].data ELSE SESSION_DEFAULT

\* C31: addSessionNote calls in flight together exclude each other nowhere.
\* A call works on the session document as it was when its read completed (the
\* default header when there was none), whatever the other call has written
\* since; its write leaves the document equal to that text followed by its own
\* block; and the document changes in no other step, so that it is always the
\* whole output of one call, never a mixture of two.
C31_LastWriteWins ==
    [][\A p \in Callers :
          /\ noteReads(p) => calls'[p].text = sessionText(disk)
          /\ noteWrites(p) =>
                /\ isFile(disk', sessionFile)
                /\ disk'[sessionFile].data
                      = calls[p].text \o blockOf([args |-> calls[p].args, at |-> calls[p].at])
          /\ (\A q \in Callers : ~noteWrites(q)) => same(sessionFile)]_vars

\* Both calls have returned success and the document holds the note of the
\* second to write but not the note of the first.
C31_Witness ==
    /\ Len(noteLog) = 2
    /\ \A p \in Callers : calls[p].pc = "returned"
    /\ isFile(disk, sessionFile)
    /\ disk[sessionFile].data = SESSION_DEFAULT \o blockOf(noteLog[2])
    /\ noteLog[1].args.content # noteLog[2].args.content

\* The paths a step creates, removes or changes.
changedPaths == {p \in DOMAIN disk \cup DOMAIN disk' : ~same(p)}

\* A reflection that works on the one journal of MEMORY_DIR: it succeeds, it
\* hands no path outside MEMORY_DIR to the storage, it reports a rotation only
\* of a journal of MEMORY_DIR that was due, and it changes nothing but that
\* journal and its archive of the day.
oneJournal ==
    /\ res'.ok
    /\ touched' = touched
    /\ reportsRotation(res') => journalDue
    /\ changedPaths \subseteq {journalFile, archiveFile(now)}

\* C32: with MEMORY_DIR (COGNITIVE_MEMORY_PATH) set, whatever else the
\* environment holds, synthesisReflection succeeds and the file whose size it
\* checks, the file it renames and the file it appends to or replaces are the
\* journal of MEMORY_DIR.
C32_OneJournal == [][reflectStep => oneJournal]_vars

\* The same, of the calls made with CODIE_MEMORY_PATH naming MEMORY_DIR too.
OneJournalSameDir ==
    [][(reflectStep /\ codieDir = Some(MEMORY_DIR)) => oneJournal]_vars

\* The call of caller p returns success in this step.
reflectReturns(p) ==
    /\ calls[p].op = "synthesisReflection"
    /\ calls[p].pc # "returned"
    /\ calls'[p].pc = "returned"
    /\ res'.ok

\* C33: whatever storage operation fails during a synthesisReflection call, a
\* success result reports the rotation (rotated = true with archived_to) if and
\* only if that call has renamed the journal; a call whose rename succeeded and
\* whose write of the fresh journal failed does not return a success without
\* rotation.
C33_RotationReported ==
    [][\A p \in Callers :
          reflectReturns(p)
              => /\ reportsRotation(res') <=> calls[p].moved
                 /\ reportsRotation(res') => "archived_to" \in DOMAIN res'.out]_vars

\* The same, of the calls during which no storage operation fails.
RotationReportedNoFault ==
    [][\A p \in Callers :
          reflectReturns(p) => (reportsRotation(res') <=> calls[p].moved)]_vars

\* What readEntity returns for path p on the file system d.
readBack(d, p) ==
    readEntity(d, [entity_path |-> p, tail |-> Undefined, head |-> Undefined,
                   offset |-> Undefined, limit |-> Undefined])

\* The content of the last occurrence of the path of entry i in the batch.
lastContent(batch, i) ==
    batch[CHOOSE j \in i..Len(batch) :
              /\ batch[j].path = batch[i].path
              /\ \A k \in (j + 1)..Len(batch) : batch[k].path # batch[i].path].content

\* Every entity of the batch reads back with the content the batch gave it.
batchReadable ==
    \A i \in 1..Len(res'.args.entities) :
        /\ readBack(disk', res'.args.entities[i].path).ok
        /\ readBack(disk', res'.args.entities[i].path).out.content
              = lastContent(res'.args.entities, i)

\* The batch names one of the documents deepLearn maintains.
namesDesignated(batch) ==
    \E i \in 1..Len(batch) :
        locationOf(batch[i].path)
            \in {locationOf(CURRENT_SESSION), locationOf(CONTEXT_ANCHORS),
                 locationOf(SESSION_ARCHIVES \o dateOf(now))}

\* C34: after a successful deepLearn, readEntity of every path of the batch
\* returns the content the batch gave it (that of the last occurrence of the
\* path), also when the path is current_session, context_anchors or the
\* session archive of the day.
C34_BatchReadable == [][(learnStep /\ res'.ok) => batchReadable]_vars

\* The same, of the batches that name none of those documents.
BatchReadableOrdinary ==
    [][(learnStep /\ res'.ok /\ ~namesDesignated(res'.args.entities)) => batchReadable]_vars

\* A successful learn call follows a successful learn call with the same
\* section, content and rationale, both on the first day.
sameCallAgain ==
    /\ instructStep /\ res'.ok
    /\ res.op = "learn" /\ res.ok
    /\ res'.args = res.args
    /\ dateOf(now) = dateOf(0)

\* C35: a learn call that repeats the call before it, with the same section,
\* content and rationale on the same date, leaves the instructions document
\* exactly as the first call left it.
C35_Idempotent == [][sameCallAgain => same(meFile)]_vars

\* The repeated call finds the block of the first and replaces it.
RepeatedCallReplaces ==
    [][(sameCallAgain /\ ~regExpThrows(sectionOf(res'.args)))
          => res'.out.action = "replaced"]_vars

\* The session before a step is exactly a reset template, of this or an
\* earlier instant, with or without the line naming the archive.
sessionIsTemplate ==
    /\ isFile(disk, sessionFile)
    /\ \E t \in 0..now, named \in BOOLEAN :
          textOf(disk, sessionFile) = resetTemplate(t, named)

\* No reset template is longer than 200 characters; the call archives nothing
\* and the session archive of the day is as it was.
templateRule ==
    /\ \A t \in 0..now, named \in BOOLEAN : Len(resetTemplate(t, named)) <= 200
    /\ ~res'.out.session_archived
    /\ res'.out.archive_path = Undefined
    /\ same(pathOf(locationOf(SESSION_ARCHIVES \o dateOf(now))))

\* C36: the reset template, with or without the archive line, has at most 200
\* characters, so a successful deepLearn that finds the session document equal
\* to a reset template reports session_archived = false and leaves the session
\* archive of the day unchanged.
C36_TemplateNotArchived ==
    [][(learnStep /\ res'.ok /\ sessionIsTemplate) => templateRule]_vars

\* The same, of the batches that name none of the documents deepLearn maintains.
TemplateNotArchivedOrdinary ==
    [][(learnStep /\ res'.ok /\ sessionIsTemplate /\ ~namesDesignated(res'.args.entities))
          => templateRule]_vars

\* A deepLearn has run on a session equal to the template naming an archive.
TemplateSeen ==
    /\ res.op = "deepLearn" /\ res.ok /\ ~res.out.session_archived
    /\ nops = 2
    /\ isFile(disk, pathOf(locationOf(SESSION_ARCHIVES \o dateOf(now))))

\* Both callers have made a synthesisReflection call that began while the
\* journal had 1048576 bytes or more, and both calls have returned.
bothRotated ==
    \A p \in Callers :
        /\ calls[p].op = "synthesisReflection"
        /\ calls[p].pc = "returned"
        /\ calls[p].due

\* The reflection block of the last call of caller p.
blockOfCall(p) == reflectionBlock(calls[p].at, calls[p].args.key_insights[1])

\* The journal archives on the file system.
datedArchives ==
    {q \in DOMAIN disk : startsWith(q, MEMORY_DIR \o SLASH \o E_JOURNAL_DATED)}

BlockLost ==
    /\ bothRotated
    /\ \E p \in Callers : \A q \in DOMAIN disk : indexOf(textOf(disk, q), blockOfCall(p)) = 0

\* The entity files other than those of the set kept are the same files with
\* the same content before and after the step.
othersSame(kept) ==
    /\ entityFiles(disk') \ kept = entityFiles(disk) \ kept
    /\ \A q \in entityFiles(disk) \ kept : disk'[q] = disk[q]

\* C38: a readEntity or listEntities call changes no entity; writeEntity
\* changes at most the entity it names, addSessionNote at most the session
\* document and learn at most the instructions document; every other entity
\* is there with the same content, and no other entity appears or disappears,
\* whether the call succeeds or fails.
C38_SingleDocumentFrame ==
    [][nops' = nops + 1
          => /\ res'.op \in {"readEntity", "listEntities"} => othersSame({})
             /\ res'.op = "writeEntity"
                   => othersSame({pathOf(locationOf(res'.args.entity_path))})
             /\ res'.op = "addSessionNote" => othersSame({sessionFile})
             /\ res'.op = "learn" => othersSame({meFile})]_vars

\* A writeEntity has written the entity 'a' next to a session document holding
\* a note.
C38_Witness ==
    /\ res.op = "writeEntity" /\ res.ok /\ res.args.entity_path = P_A
    /\ isFile(disk, pathOf(locationOf(P_A)))
    /\ isFile(disk, sessionFile)
    /\ noteLog # <<>>
====
